---- MODULE Spec2Model ----
(***************************************************************************)
(* Model of the Braintree sample server: the POST /api/sale handler of     *)
(* generate-report.js (the full server: billing, vaulting, synthesized     *)
(* customer, four-instrument normalizer) and of server.js (the earlier     *)
(* server: billing, vault flag, credit-card normalizer only).              *)
(*                                                                         *)
(* JavaScript values are tagged records: [t |-> "undefined"], "null",      *)
(* "bool", "num", "str", "obj".  A JavaScript string is a sequence of       *)
(* pieces: a string the code parses or formats (an amount) is split into   *)
(* its characters, a text the code only passes along is one piece.  A      *)
(* Number is a record: NaN, +-Infinity, a finite double at or above 1e21   *)
(* ("huge"), or the double nearest to the decimal (-1)^neg * n / 10^d.     *)
(***************************************************************************)
EXTENDS Integers, Sequences, FiniteSets, TLC

-----------------------------------------------------------------------------
(* Bounds of the model *)

\* number of requests in flight at once in the concurrent study
NumRequests == 2

\* longest amount string drawn over AmountChars
MaxLen == 3

\* runs of the card form's submit handler
NumSubmits == 2

\* changes of the Venmo mode toggle
MaxToggles == 3

\* changes of the vault checkbox
MaxChanges == 2

\* command-line arguments of the report generator
MaxArgs == 3

-----------------------------------------------------------------------------
(* JavaScript values *)

Undef == [t |-> "undefined"]

Null == [t |-> "null"]

Bool(b) == [t |-> "bool", b |-> b]

Str(s) == [t |-> "str", s |-> s]

Num(x) == [t |-> "num", x |-> x]

NaN == [k |-> "nan"]

Inf(neg) == [k |-> "inf", neg |-> neg]

Huge == [k |-> "huge"]

Fin(neg, n, d) == [k |-> "fin", neg |-> neg, n |-> n, d |-> d]

Digits == {"0", "1", "2", "3", "4", "5", "6", "7", "8", "9"}

DigitVal(c) ==
  CASE c = "0" -> 0 [] c = "1" -> 1 [] c = "2" -> 2 [] c = "3" -> 3
    [] c = "4" -> 4 [] c = "5" -> 5 [] c = "6" -> 6 [] c = "7" -> 7
    [] c = "8" -> 8 [] c = "9" -> 9

DigitChar(i) ==
  CASE i = 0 -> "0" [] i = 1 -> "1" [] i = 2 -> "2" [] i = 3 -> "3"
    [] i = 4 -> "4" [] i = 5 -> "5" [] i = 6 -> "6" [] i = 7 -> "7"
    [] i = 8 -> "8" [] i = 9 -> "9"

RECURSIVE Pow10(_)
Pow10(d) == IF d = 0 THEN 1 ELSE 10 * Pow10(d - 1)

\* the characters from position i on
Drop(s, i) == SubSeq(s, i, Len(s))

\* number of leading characters of s that satisfy the test
RECURSIVE SpanLen(_, _)
SpanLen(s, set) ==
  IF s = <<>> \/ s[1] \notin set THEN 0 ELSE 1 + SpanLen(Tail(s), set)

\* value of a run of decimal digits
RECURSIVE DigitsVal(_)
DigitsVal(s) ==
  IF s = <<>> THEN 0 ELSE 10 * DigitsVal(SubSeq(s, 1, Len(s) - 1)) + DigitVal(s[Len(s)])

InfinityChars == <<"I", "n", "f", "i", "n", "i", "t", "y">>

StartsWith(s, p) == Len(s) >= Len(p) /\ SubSeq(s, 1, Len(p)) = p

WhiteSpace == {" "}

TrimStart(s) == Drop(s, SpanLen(s, WhiteSpace) + 1)

RECURSIVE TrimEnd(_)
TrimEnd(s) ==
  IF s # <<>> /\ s[Len(s)] \in WhiteSpace THEN TrimEnd(SubSeq(s, 1, Len(s) - 1)) ELSE s

\* The longest prefix of s that is a StrDecimalLiteral (ECMAScript 19.2.4,
\* parseFloat step 4): an optional sign, then Infinity, or digits with an
\* optional fraction, or a fraction alone.  Result: the number it denotes and
\* the count of characters used; used = 0 when no prefix is a literal.
\* Exponent parts (e, E) are not in the alphabet of the inputs and end the
\* literal like any other character.
DecimalPrefix(s) ==
  LET sgn  == IF s # <<>> /\ s[1] \in {"+", "-"} THEN 1 ELSE 0
      neg  == sgn = 1 /\ s[1] = "-"
      r    == Drop(s, sgn + 1)
      il   == SpanLen(r, Digits)
      ip   == SubSeq(r, 1, il)
      dot  == Len(r) > il /\ r[il + 1] = "."
      fl   == IF dot THEN SpanLen(Drop(r, il + 2), Digits) ELSE 0
      fp   == SubSeq(r, il + 2, il + 1 + fl)
  IN  IF StartsWith(r, InfinityChars)
        THEN [num |-> Inf(neg), used |-> sgn + Len(InfinityChars)]
      ELSE IF il = 0 /\ fl = 0
        THEN [num |-> NaN, used |-> 0]
      ELSE [num |-> Fin(neg, DigitsVal(ip \o fp), fl),
            used |-> sgn + il + (IF dot THEN 1 ELSE 0) + fl]

\* parseFloat applied to a string
ParseFloatStr(s) == DecimalPrefix(TrimStart(s)).num

\* StringToNumber (ECMAScript 7.1.4.1.1): the whole trimmed string must be a
\* numeric literal; the empty string is 0.  A literal may end in "." ("5.").
StringToNumber(s) ==
  LET t == TrimEnd(TrimStart(s))
      p == DecimalPrefix(t)
  IN  IF t = <<>> THEN Fin(FALSE, 0, 0)
      ELSE IF p.used = Len(t) /\ p.used > 0 THEN p.num
      ELSE NaN

\* ToNumber of a value
ToNumber(v) ==
  CASE v.t = "undefined" -> NaN
    [] v.t = "null" -> Fin(FALSE, 0, 0)
    [] v.t = "bool" -> Fin(FALSE, IF v.b THEN 1 ELSE 0, 0)
    [] v.t = "num" -> v.x
    [] v.t = "str" -> StringToNumber(v.s)
    [] v.t = "obj" -> NaN

\* the global isNaN: ToNumber, then the NaN test
isNaN(v) == ToNumber(v).k = "nan"

\* the global parseFloat: ToString of the argument, then the prefix parse.
\* ToString of a Number and the parse are inverse on the Numbers of the model;
\* undefined, null, booleans and objects print as text that starts no literal.
parseFloat(v) ==
  CASE v.t = "str" -> ParseFloatStr(v.s)
    [] v.t = "num" -> v.x
    [] OTHER -> NaN

\* ToBoolean
Truthy(v) ==
  CASE v.t = "undefined" -> FALSE
    [] v.t = "null" -> FALSE
    [] v.t = "bool" -> v.b
    [] v.t = "num" -> ~(v.x.k = "nan" \/ (v.x.k = "fin" /\ v.x.n = 0))
    [] v.t = "str" -> v.s # <<>>
    [] v.t = "obj" -> TRUE

\* x <= 0 on Numbers (false when x is NaN)
LeqZero(x) ==
  CASE x.k = "nan" -> FALSE
    [] x.k = "inf" -> x.neg
    [] x.k = "huge" -> FALSE
    [] x.k = "fin" -> x.neg \/ x.n = 0

RECURSIVE BitLen(_)
BitLen(i) == IF i = 0 THEN 0 ELSE 1 + BitLen(i \div 2)

\* Where the double nearest to i + r/M lies relative to that rational: the
\* binary expansion is produced bit by bit (r is the remainder, cnt the count
\* of significant bits so far, last the last bit kept); a double keeps 53
\* significant bits and rounds the rest to nearest, ties to even.
RECURSIVE RoundBits(_, _, _, _)
RoundBits(r, M, cnt, last) ==
  IF r = 0 THEN "exact"
  ELSE IF cnt >= 53
    THEN IF 2 * r > M THEN "above"
         ELSE IF 2 * r < M THEN "below"
         ELSE IF last = 1 THEN "above" ELSE "below"
  ELSE LET b  == (2 * r) \div M
           r2 == (2 * r) % M
       IN  IF cnt > 0 \/ b = 1 THEN RoundBits(r2, M, cnt + 1, b)
           ELSE RoundBits(r2, M, cnt, last)

\* the double that a decimal literal n / 10^d denotes, compared with n / 10^d
DoubleCmp(n, d) ==
  LET M == Pow10(d)
  IN  RoundBits(n % M, M, BitLen(n \div M), (n \div M) % 2)

RECURSIVE IntStr(_)
IntStr(i) == IF i < 10 THEN <<DigitChar(i)>> ELSE IntStr(i \div 10) \o <<DigitChar(i % 10)>>

\* variant: the third decimal and what follows are cut off
CentsTruncated(n, d) == (n * 100) \div Pow10(d)

\* the integer c for which c / 100 - x is as close to zero as possible, the
\* larger one when there are two (Number.prototype.toFixed step 10.a), x
\* being the double of n / 10^d: a decimal tie is decided by the side of the
\* tie on which the double lies.
CentsRounded(n, d) ==
  LET M   == Pow10(d)
      c   == (n * 100) \div M
      rem == (n * 100) % M
  IN  IF 2 * rem > M THEN c + 1
      ELSE IF 2 * rem < M THEN c
      ELSE IF DoubleCmp(n, d) = "below" THEN c ELSE c + 1

CentsStr(c) == IntStr(c \div 100) \o <<".", DigitChar((c % 100) \div 10), DigitChar(c % 10)>>

\* Number.prototype.toFixed(2): a non-finite x and an x >= 1e21 print as
\* ToString(x) (the huge Number of the model is 1e21); otherwise the sign,
\* the integer digits, a point and two fraction digits.
toFixed2(x) ==
  CASE x.k = "nan" -> <<"N", "a", "N">>
    [] x.k = "inf" -> (IF x.neg THEN <<"-">> ELSE <<>>) \o InfinityChars
    [] x.k = "huge" -> <<"1", "e", "+", "2", "1">>
    [] x.k = "fin" ->
         (IF x.neg /\ x.n # 0 THEN <<"-">> ELSE <<>>) \o CentsStr(CentsRounded(x.n, x.d))

-----------------------------------------------------------------------------
(* JavaScript objects: a function from the keys present to their values *)

Obj(f) == [t |-> "obj", f |-> f]

EmptyFields == [k \in {} |-> Undef]

\* property read: undefined for a missing key and for a value that is no object
Get(v, k) == IF v.t = "obj" /\ k \in DOMAIN v.f THEN v.f[k] ELSE Undef

Put(f, k, v) == [x \in DOMAIN f \cup {k} |-> IF x = k THEN v ELSE f[x]]

\* a || b
OrElse(a, b) == IF Truthy(a) THEN a ELSE b

\* JSON.stringify of an object literal drops the keys whose value is undefined
DropUndefined(f) == [k \in {x \in DOMAIN f : f[x] # Undef} |-> f[k]]

\* a text that is passed along whole
Lit(text) == Str(<<text>>)

-----------------------------------------------------------------------------
(* POST /api/sale: validation and the transaction data *)

\* variant: only an absent nonce is refused, an empty one is let through
NonceMissingOnlyAbsent(b) == b.paymentMethodNonce = Undef

\* !paymentMethodNonce
NonceMissing(b) == ~Truthy(b.paymentMethodNonce)

\* !amount || isNaN(amount) || parseFloat(amount) <= 0
AmountInvalid(b) ==
  \/ ~Truthy(b.amount)
  \/ isNaN(b.amount)
  \/ LeqZero(parseFloat(b.amount))

NonceRequired == [status |-> 400, body |-> Obj([error |-> Lit("Payment method nonce is required")])]

AmountRequired == [status |-> 400, body |-> Obj([error |-> Lit("Valid amount is required")])]

\* variant: an authorization that is not submitted for settlement
BaseTransactionDataAuthorizeOnly(b) ==
  [amount |-> toFixed2(parseFloat(b.amount)),
   paymentMethodNonce |-> b.paymentMethodNonce,
   options |-> [submitForSettlement |-> FALSE]]

\* the object literal both servers start from
BaseTransactionData(b) ==
  [amount |-> toFixed2(parseFloat(b.amount)),
   paymentMethodNonce |-> b.paymentMethodNonce,
   options |-> [submitForSettlement |-> TRUE]]

\* variant: only the names of the address are copied
WithBillingNamesOnly(td, b) ==
  IF Truthy(b.billingAddress)
    THEN Put(td, "billing", Obj(DropUndefined([firstName |-> Get(b.billingAddress, "firstName"),
                                               lastName |-> Get(b.billingAddress, "lastName")])))
    ELSE td

\* if (billingAddress) transactionData.billing = billingAddress
WithBilling(td, b) ==
  IF Truthy(b.billingAddress) THEN Put(td, "billing", b.billingAddress) ELSE td

\* transactionData.options.storeInVaultOnSuccess = true
WithVaultOption(td) ==
  [td EXCEPT !.options = Put(td.options, "storeInVaultOnSuccess", TRUE)]

\* variant: the names of the address without the defaults
CustomerDataNoDefaults(b) ==
  IF Truthy(b.billingAddress)
    THEN [firstName |-> Get(b.billingAddress, "firstName"),
          lastName |-> Get(b.billingAddress, "lastName")]
    ELSE [firstName |-> Lit("PayPal"), lastName |-> Lit("Customer")]

\* generate-report.js: the customer created for vaulting
CustomerData(b) ==
  IF Truthy(b.billingAddress)
    THEN [firstName |-> OrElse(Get(b.billingAddress, "firstName"), Lit("Customer")),
          lastName |-> OrElse(Get(b.billingAddress, "lastName"), Str(<<>>))]
    ELSE [firstName |-> Lit("PayPal"), lastName |-> Lit("Customer")]

\* generate-report.js: the transaction data handed to gateway.transaction.sale
TransactionData(b) ==
  LET td == WithBilling(BaseTransactionData(b), b)
  IN  IF Truthy(b.vaultPaymentMethod)
        THEN Put(WithVaultOption(td), "customer", CustomerData(b))
        ELSE td

\* server.js: the transaction data handed to gateway.transaction.sale
ServerJsTransactionData(b) ==
  LET td == WithBilling(BaseTransactionData(b), b)
  IN  IF Truthy(b.vaultPaymentMethod) THEN WithVaultOption(td) ELSE td

-----------------------------------------------------------------------------
(* POST /api/sale: the response to a gateway result *)

\* variant: no customerId key when the transaction has no customer
CustomerIdWhenGiven(tx) ==
  IF Truthy(Get(tx, "customer")) THEN Get(Get(tx, "customer"), "id") ELSE Undef

\* result.transaction.customer ? result.transaction.customer.id : null
CustomerId(tx) ==
  IF Truthy(Get(tx, "customer")) THEN Get(Get(tx, "customer"), "id") ELSE Null

\* o && o.token
HasToken(o) == Truthy(o) /\ Truthy(Get(o, "token"))

\* variant: the primary token, whatever else the sub-object carries
PayPalTokenPrimaryOnly(pp) == Get(pp, "token")

\* token of the PayPal branch: the implicitly vaulted token when there is one
PayPalToken(pp) ==
  IF Truthy(Get(pp, "implicitlyVaultedPaymentMethodToken"))
    THEN Get(pp, "implicitlyVaultedPaymentMethodToken")
    ELSE Get(pp, "token")

\* variant: the PayPal branch is tried before the credit-card branch
VaultedPaymentMethodPayPalFirst(tx) ==
  LET cc == Get(tx, "creditCard")
      pp == Get(tx, "paypal")
      vm == Get(tx, "venmoAccount")
      ap == Get(tx, "androidPayCard")
  IN  IF HasToken(pp)
        THEN Obj(DropUndefined([token |-> PayPalToken(pp),
                                email |-> Get(pp, "payerEmail"),
                                paymentType |-> Lit("PayPal"),
                                customerId |-> CustomerId(tx)]))
      ELSE IF HasToken(cc)
        THEN Obj(DropUndefined([token |-> Get(cc, "token"),
                                maskedNumber |-> Get(cc, "maskedNumber"),
                                cardType |-> Get(cc, "cardType"),
                                customerId |-> CustomerId(tx)]))
      ELSE IF HasToken(vm)
        THEN Obj(DropUndefined([token |-> Get(vm, "token"),
                                username |-> Get(vm, "username"),
                                paymentType |-> Lit("Venmo"),
                                customerId |-> CustomerId(tx)]))
      ELSE IF HasToken(ap)
        THEN Obj(DropUndefined([token |-> Get(ap, "token"),
                                maskedNumber |-> Get(ap, "last4"),
                                cardType |-> Get(ap, "cardType"),
                                paymentType |-> Lit("Google Pay"),
                                customerId |-> CustomerId(tx)]))
      ELSE Undef

\* generate-report.js: the if / else-if chain that sets
\* response.vaultedPaymentMethod; Undef when no branch is taken
VaultedPaymentMethod(tx) ==
  LET cc == Get(tx, "creditCard")
      pp == Get(tx, "paypal")
      vm == Get(tx, "venmoAccount")
      ap == Get(tx, "androidPayCard")
  IN  IF HasToken(cc)
        THEN Obj(DropUndefined([token |-> Get(cc, "token"),
                                maskedNumber |-> Get(cc, "maskedNumber"),
                                cardType |-> Get(cc, "cardType"),
                                customerId |-> CustomerId(tx)]))
      ELSE IF HasToken(pp)
        THEN Obj(DropUndefined([token |-> PayPalToken(pp),
                                email |-> Get(pp, "payerEmail"),
                                paymentType |-> Lit("PayPal"),
                                customerId |-> CustomerId(tx)]))
      ELSE IF HasToken(vm)
        THEN Obj(DropUndefined([token |-> Get(vm, "token"),
                                username |-> Get(vm, "username"),
                                paymentType |-> Lit("Venmo"),
                                customerId |-> CustomerId(tx)]))
      ELSE IF HasToken(ap)
        THEN Obj(DropUndefined([token |-> Get(ap, "token"),
                                maskedNumber |-> Get(ap, "last4"),
                                cardType |-> Get(ap, "cardType"),
                                paymentType |-> Lit("Google Pay"),
                                customerId |-> CustomerId(tx)]))
      ELSE Undef

\* server.js: only the credit card is looked at
ServerJsVaultedPaymentMethod(tx) ==
  LET cc == Get(tx, "creditCard")
  IN  IF HasToken(cc)
        THEN Obj(DropUndefined([token |-> Get(cc, "token"),
                                maskedNumber |-> Get(cc, "maskedNumber"),
                                cardType |-> Get(cc, "cardType")]))
      ELSE Undef

\* res.json(response): status 200, the keys with an undefined value dropped
Json200(response, vaulted) ==
  [status |-> 200,
   body |-> Obj(DropUndefined(Put(response, "vaultedPaymentMethod", vaulted)))]

\* variant: the whole gateway transaction is put in the response
SuccessResponseWholeTransaction(tx) ==
  Json200([success |-> Bool(TRUE), transaction |-> tx], VaultedPaymentMethod(tx))

\* generate-report.js: the response object of the success branch
SuccessResponse(tx) ==
  Json200([success |-> Bool(TRUE),
           transaction |-> Obj(DropUndefined([id |-> Get(tx, "id"),
                                              status |-> Get(tx, "status"),
                                              amount |-> Get(tx, "amount"),
                                              paypal |-> Get(tx, "paypal")]))],
          VaultedPaymentMethod(tx))

\* server.js: the response object of the success branch
ServerJsSuccessResponse(tx) ==
  Json200([success |-> Bool(TRUE),
           transaction |-> Obj(DropUndefined([id |-> Get(tx, "id"),
                                              status |-> Get(tx, "status"),
                                              amount |-> Get(tx, "amount")]))],
          ServerJsVaultedPaymentMethod(tx))

\* variant: a decline is reported like a gateway failure
DeclineResponseAsFailure(result) ==
  [status |-> 500,
   body |-> Obj([success |-> Bool(FALSE), error |-> Lit("Failed to process payment")])]

\* the else branch: res.status(400).json({success: false, error: result.message})
DeclineResponse(result) ==
  [status |-> 400,
   body |-> Obj(DropUndefined([success |-> Bool(FALSE), error |-> Get(result, "message")]))]

\* the catch block
FailedResponse ==
  [status |-> 500,
   body |-> Obj([success |-> Bool(FALSE), error |-> Lit("Failed to process payment")])]

\* variant: customer.id is read without the test for a customer
ReadThrowsWithoutCustomer(result) ==
  \/ Get(result, "transaction").t \in {"undefined", "null"}
  \/ Get(Get(result, "transaction"), "customer").t \in {"undefined", "null"}

\* result.transaction.id on a missing transaction raises a TypeError inside try
ReadThrows(result) == Get(result, "transaction").t \in {"undefined", "null"}

\* variant: the success flag is not looked at when a transaction came back
RespondToAnyTransaction(result) ==
  IF ~ReadThrows(result) THEN SuccessResponse(Get(result, "transaction"))
  ELSE DeclineResponse(result)

\* generate-report.js: what follows the await, for a result the gateway returned
Respond(result) ==
  IF Truthy(Get(result, "success"))
    THEN IF ReadThrows(result) THEN FailedResponse
         ELSE SuccessResponse(Get(result, "transaction"))
    ELSE DeclineResponse(result)

\* variant: a success that vaulted nothing is answered like a decline
ServerJsRespondVaultedOnly(result) ==
  IF Truthy(Get(result, "success"))
    THEN IF ReadThrows(result) THEN FailedResponse
         ELSE IF HasToken(Get(Get(result, "transaction"), "creditCard"))
           THEN ServerJsSuccessResponse(Get(result, "transaction"))
         ELSE DeclineResponse(result)
    ELSE DeclineResponse(result)

\* server.js: what follows the await, for a result the gateway returned
ServerJsRespond(result) ==
  IF Truthy(Get(result, "success"))
    THEN IF ReadThrows(result) THEN FailedResponse
         ELSE ServerJsSuccessResponse(Get(result, "transaction"))
    ELSE DeclineResponse(result)

-----------------------------------------------------------------------------
(* Inputs: request bodies, gateway results, gateway errors *)

AmountChars == {"0", "1", "5", "9", ".", "-", "+", " ", "a"}

\* every string of at most MaxLen characters over AmountChars
ShortAmountStrings == UNION {[1..k -> AmountChars] : k \in 0..MaxLen}

\* longer strings of interest: decimal ties, the spec's examples, Infinity
LongAmountStrings ==
  {<<"9", ".", "9", "9", "9">>, <<"1", ".", "0", "0", "5">>, <<"8", ".", "3", "4", "5">>,
   <<"0", ".", "1", "2", "5">>, <<"1", "0", ".", "5">>, <<"1", "9", ".", "9", "9">>,
   <<" ", "1", "2", ".", "5", " ">>, <<"1", "2", "a", "b", "c">>, InfinityChars}

\* JSON numbers: 10, 25, 9.999, 1.005, 0.004, 0, -5, 1e21
AmountNumbers ==
  {Num(Fin(FALSE, 10, 0)), Num(Fin(FALSE, 25, 0)), Num(Fin(FALSE, 9999, 3)),
   Num(Fin(FALSE, 1005, 3)), Num(Fin(FALSE, 4, 3)), Num(Fin(FALSE, 0, 0)),
   Num(Fin(TRUE, 5, 0)), Num(Huge)}

AmountInputs ==
  {Str(s) : s \in ShortAmountStrings \cup LongAmountStrings}
    \cup AmountNumbers \cup {Undef, Null, Bool(TRUE), Bool(FALSE)}

Body(nonce, amount, billing, vault, type) ==
  [paymentMethodNonce |-> nonce, amount |-> amount, billingAddress |-> billing,
   vaultPaymentMethod |-> vault, cardholderName |-> Undef, paymentMethodType |-> type]

\* req.body of a request that carries nothing
EmptyBody == Body(Undef, Undef, Undef, Undef, Undef)

Nonces == {Undef, Str(<<>>), Lit("fake-valid-nonce"), Lit("nonce-2")}

\* an address with the given names; a name of Undef is a missing key
Address(first, last) ==
  Obj(DropUndefined([firstName |-> first, lastName |-> last,
                     streetAddress |-> Lit("1 Main St"), postalCode |-> Lit("60601")]))

Addresses ==
  {Address(f, l) : f \in {Undef, Str(<<>>), Lit(" "), Lit("Jane")},
                   l \in {Undef, Str(<<>>), Lit("Doe")}}

BillingAddresses == {Undef, Null, Obj(EmptyFields)} \cup Addresses

VaultFlags == {Undef, Bool(FALSE), Bool(TRUE)}

PaymentMethodTypes == {Undef, Lit("PayPal"), Lit("Venmo")}

SampleAmounts == {Undef, Str(<<"1", "0">>), Str(<<"-", "5">>), Num(Fin(FALSE, 25, 0))}

\* the bodies of the amount study: every amount, with and without a nonce
AmountBodies ==
  {Body(n, a, Undef, v, Undef) :
     n \in {Undef, Lit("fake-valid-nonce")}, a \in AmountInputs, v \in {Undef, Bool(TRUE)}}

\* the bodies of the handler study: a few amounts, every other field varied
Bodies ==
  {Body(n, a, b, v, t) : n \in Nonces, a \in SampleAmounts, b \in BillingAddresses,
                         v \in VaultFlags, t \in PaymentMethodTypes}

CreditCards ==
  {Undef, Obj([token |-> Null]),
   Obj([token |-> Lit("tok_1"), maskedNumber |-> Lit("411111******1111"), cardType |-> Lit("Visa")]),
   Obj([token |-> Lit("tok_1")])}

PayPals ==
  {Undef, Obj([payerEmail |-> Lit("jane@example.com")]),
   Obj([token |-> Lit("pp_tok"), payerEmail |-> Lit("jane@example.com")]),
   Obj([token |-> Lit("pp_tok"), implicitlyVaultedPaymentMethodToken |-> Lit("pp_implicit"),
        payerEmail |-> Lit("jane@example.com")]),
   Obj([implicitlyVaultedPaymentMethodToken |-> Lit("pp_implicit")]),
   Obj([token |-> Lit("pp_tok")])}

VenmoAccounts ==
  {Undef, Obj([token |-> Lit("vm_tok"), username |-> Lit("jane-venmo")]), Obj([token |-> Str(<<>>)])}

AndroidPayCards ==
  {Undef, Obj([token |-> Lit("ap_tok"), last4 |-> Lit("1111"), cardType |-> Lit("Visa")]),
   Obj([token |-> Lit("ap_tok")])}

Customers == {Undef, Obj([id |-> Lit("cust_1")])}

Transaction(cc, pp, vm, ap, cu) ==
  Obj(DropUndefined([id |-> Lit("txn_1"), status |-> Lit("submitted_for_settlement"),
                     amount |-> Lit("10.00"), creditCard |-> cc, paypal |-> pp,
                     venmoAccount |-> vm, androidPayCard |-> ap, customer |-> cu]))

Transactions ==
  {Transaction(cc, pp, vm, ap, cu) : cc \in CreditCards, pp \in PayPals, vm \in VenmoAccounts,
                                     ap \in AndroidPayCards, cu \in Customers}

SuccessResults == {Obj([success |-> Bool(TRUE), transaction |-> tx]) : tx \in Transactions}

DeclineMessages == {Lit("Insufficient Funds"), Lit("Do Not Honor")}

\* a decline, with or without the transaction the processor refused
FailedResults ==
  {Obj([success |-> Bool(FALSE), message |-> m]) : m \in DeclineMessages}
    \cup {Obj([success |-> Bool(FALSE), message |-> m, transaction |-> tx]) :
            m \in DeclineMessages,
            tx \in {Transaction(cc, pp, Undef, Undef, Undef) :
                      cc \in CreditCards, pp \in {Undef, Obj([token |-> Lit("pp_tok")])}}}

Results == SuccessResults \cup FailedResults

FewResults ==
  {Obj([success |-> Bool(TRUE),
        transaction |-> Transaction(Obj([token |-> Null]), Undef, Undef, Undef, Undef)]),
   Obj([success |-> Bool(FALSE), message |-> Lit("Do Not Honor")])}

GatewayErrors ==
  {Obj([name |-> Lit("authenticationError"), message |-> Lit("bad private key")]),
   Obj([name |-> Lit("unexpectedError"), message |-> Lit("ECONNREFUSED 10.0.0.7:443")])}

-----------------------------------------------------------------------------
(* State *)

VARIABLES
  server,   \* the file the process runs: "generate-report.js" or "server.js"
  pc,       \* per request: "idle", "awaiting" (the gateway round trip), "done"
  body,     \* per request: req.body
  calls,    \* per request: the arguments of its gateway.transaction.sale calls
  outcome,  \* per request: what the gateway call did
  res,      \* per request: the response sent
  sent      \* per request: how many responses were sent (res.json calls)

serverVars == <<server, pc, body, calls, outcome, res, sent>>

\* public/hosted-fields.js: the page
VARIABLES
  amountInput,    \* amountInput.value
  vaultCheckbox,  \* vaultCheckbox.checked
  resultDiv,      \* what showResult put in the result element
  fetches         \* the fetch('/api/sale') calls of the page, in order

pageVars == <<amountInput, vaultCheckbox, resultDiv, fetches>>

\* public/hosted-fields.js: the card form
VARIABLES
  submitButton,   \* submitButton.disabled
  fieldsState,    \* fieldsState of setupHostedFieldsListeners: isValid per field
  hostedFields,   \* hostedFieldsInstance.getState().fields: isValid per field
  submits         \* per run of the submit handler: where it stands

formVars == <<submitButton, fieldsState, hostedFields, submits>>

\* public/hosted-fields.js: Venmo
VARIABLES
  venmoToggle,    \* checked state of #venmo-desktop-toggle
  venmoInstance,  \* the global: index in venmoCreated, 0 while undefined
  venmoCreated,   \* every instance braintree.venmo.create resolved to
  venmoInits,     \* the initializeVenmo calls of the toggle listener
  venmoButton     \* content of #venmo-button

venmoVars == <<venmoToggle, venmoInstance, venmoCreated, venmoInits, venmoButton>>

\* public/hosted-fields.js: PayPal
VARIABLES
  paypalButton,   \* the buttons rendered in #paypal-button
  paypalInits,    \* the initializePayPal promise chains
  paypalOrder     \* the PayPal payment under way

paypalVars == <<paypalButton, paypalInits, paypalOrder>>

\* generate-report.js: the report generator
VARIABLES
  argv,           \* process.argv.slice(2)
  reportPc,       \* where the run stands
  options,        \* what parseArgs returned
  exitCode,       \* the code of process.exit, -1 while running
  searches,       \* gateway.transaction.search calls issued
  files           \* fs.writeFileSync calls: the file names

reportVars == <<argv, reportPc, options, exitCode, searches, files>>

vars == <<serverVars, pageVars, formVars, venmoVars, paypalVars, reportVars>>

\* what the handlers of the server leave alone
notServer == <<pageVars, formVars, venmoVars, paypalVars, reportVars>>

Servers == {"generate-report.js", "server.js"}

NoOutcome == [kind |-> "none"]

NoResponse == [status |-> 0, body |-> Undef]

Reqs == {1}

InitFor(R) ==
  /\ server \in Servers
  /\ pc = [r \in R |-> "idle"]
  /\ body = [r \in R |-> EmptyBody]
  /\ calls = [r \in R |-> <<>>]
  /\ outcome = [r \in R |-> NoOutcome]
  /\ res = [r \in R |-> NoResponse]
  /\ sent = [r \in R |-> 0]

\* the card fields of braintree.hostedFields.create
Fields == {"number", "cvv", "expirationDate", "postalCode"}

\* the runs of the submit handler
SubmitIds == 1..NumSubmits

\* the result element before the first showResult
Hidden == [className |-> "result", message |-> Str(<<>>)]

\* amountInput.value = '10.00'
TenDollars == Str(<<"1", "0", ".", "0", "0">>)

\* the page as loaded, nothing typed, nothing shown
PageIdle ==
  /\ amountInput = TenDollars
  /\ vaultCheckbox = FALSE
  /\ resultDiv = Hidden
  /\ fetches = <<>>

\* the card form as initializeBraintree leaves it: no field valid yet
FormIdle ==
  /\ submitButton = TRUE
  /\ fieldsState = [f \in Fields |-> FALSE]
  /\ hostedFields = [f \in Fields |-> FALSE]
  /\ submits = [s \in SubmitIds |-> [pc |-> "idle", amount |-> Undef]]

\* Venmo after await initializeVenmo(clientInstance, false): one instance,
\* web login mode
VenmoIdle ==
  /\ venmoToggle = FALSE
  /\ venmoInstance = 1
  /\ venmoCreated = <<[mode |-> FALSE, torn |-> FALSE]>>
  /\ venmoInits = <<>>
  /\ venmoButton = "Pay with Venmo (Web Login)"

NoOrder == [stage |-> "none", requestBillingAgreement |-> FALSE, fetch |-> 0]

\* PayPal before initializePayPal is called
PayPalIdle ==
  /\ paypalButton = [hidden |-> FALSE, buttons |-> {}]
  /\ paypalInits = <<>>
  /\ paypalOrder = NoOrder

\* the report generator, not started
ReportIdle ==
  /\ argv = <<>>
  /\ reportPc = "start"
  /\ options = [days |-> Num(Fin(FALSE, 1, 0)), format |-> Lit("csv"), output |-> Null,
                  help |-> Bool(FALSE)]
  /\ exitCode = -1
  /\ searches = 0
  /\ files = <<>>

\* one request to the server; the page and the report generator are not running
Init == InitFor(Reqs) /\ PageIdle /\ FormIdle /\ VenmoIdle /\ PayPalIdle /\ ReportIdle

\* variant: the transaction data is kept in one place shared by all requests
ReceiveShared(r, b, td) ==
  /\ body' = [body EXCEPT ![r] = b]
  /\ IF NonceMissing(b)
       THEN /\ res' = [res EXCEPT ![r] = NonceRequired]
            /\ pc' = [pc EXCEPT ![r] = "done"]
            /\ sent' = [sent EXCEPT ![r] = @ + 1]
            /\ UNCHANGED calls
     ELSE IF AmountInvalid(b)
       THEN /\ res' = [res EXCEPT ![r] = AmountRequired]
            /\ pc' = [pc EXCEPT ![r] = "done"]
            /\ sent' = [sent EXCEPT ![r] = @ + 1]
            /\ UNCHANGED calls
     ELSE /\ calls' = [q \in DOMAIN calls |-> <<td>>]
          /\ pc' = [pc EXCEPT ![r] = "awaiting"]
          /\ UNCHANGED <<res, sent>>
  /\ UNCHANGED <<server, outcome, notServer>>

\* variant: the amount is validated before the nonce
ReceiveAmountFirst(r, b, td) ==
  /\ body' = [body EXCEPT ![r] = b]
  /\ IF AmountInvalid(b)
       THEN /\ res' = [res EXCEPT ![r] = AmountRequired]
            /\ pc' = [pc EXCEPT ![r] = "done"]
            /\ sent' = [sent EXCEPT ![r] = @ + 1]
            /\ UNCHANGED calls
     ELSE IF NonceMissing(b)
       THEN /\ res' = [res EXCEPT ![r] = NonceRequired]
            /\ pc' = [pc EXCEPT ![r] = "done"]
            /\ sent' = [sent EXCEPT ![r] = @ + 1]
            /\ UNCHANGED calls
     ELSE /\ calls' = [calls EXCEPT ![r] = Append(@, td)]
          /\ pc' = [pc EXCEPT ![r] = "awaiting"]
          /\ UNCHANGED <<res, sent>>
  /\ UNCHANGED <<server, outcome, notServer>>

\* the handler up to the await: the two validations, then the gateway call
\* with the transaction data td
Receive(r, b, td) ==
  /\ body' = [body EXCEPT ![r] = b]
  /\ IF NonceMissing(b)
       THEN /\ res' = [res EXCEPT ![r] = NonceRequired]
            /\ pc' = [pc EXCEPT ![r] = "done"]
            /\ sent' = [sent EXCEPT ![r] = @ + 1]
            /\ UNCHANGED calls
     ELSE IF AmountInvalid(b)
       THEN /\ res' = [res EXCEPT ![r] = AmountRequired]
            /\ pc' = [pc EXCEPT ![r] = "done"]
            /\ sent' = [sent EXCEPT ![r] = @ + 1]
            /\ UNCHANGED calls
     ELSE /\ calls' = [calls EXCEPT ![r] = Append(@, td)]
          /\ pc' = [pc EXCEPT ![r] = "awaiting"]
          /\ UNCHANGED <<res, sent>>
  /\ UNCHANGED <<server, outcome, notServer>>

\* variant: the else branch of a decline logs the message and sends nothing
ResumeSilentOnDecline(r, result, rsp) ==
  /\ outcome' = [outcome EXCEPT ![r] = [kind |-> "returned", result |-> result]]
  /\ IF rsp.status = 400
       THEN UNCHANGED <<res, sent>>
       ELSE /\ res' = [res EXCEPT ![r] = rsp]
            /\ sent' = [sent EXCEPT ![r] = @ + 1]
  /\ pc' = [pc EXCEPT ![r] = "done"]
  /\ UNCHANGED <<server, body, calls, notServer>>

\* the handler after the await, the gateway having returned result: response rsp
Resume(r, result, rsp) ==
  /\ outcome' = [outcome EXCEPT ![r] = [kind |-> "returned", result |-> result]]
  /\ res' = [res EXCEPT ![r] = rsp]
  /\ pc' = [pc EXCEPT ![r] = "done"]
  /\ sent' = [sent EXCEPT ![r] = @ + 1]
  /\ UNCHANGED <<server, body, calls, notServer>>

\* variant: the message of the gateway error is sent to the caller
CatchLeaking(r, e) ==
  /\ outcome' = [outcome EXCEPT ![r] = [kind |-> "threw", error |-> e]]
  /\ res' = [res EXCEPT ![r] = [status |-> 500,
                                body |-> Obj([success |-> Bool(FALSE),
                                              error |-> Get(e, "message")])]]
  /\ pc' = [pc EXCEPT ![r] = "done"]
  /\ sent' = [sent EXCEPT ![r] = @ + 1]
  /\ UNCHANGED <<server, body, calls, notServer>>

\* variant: the sale is sent once more from the catch block
CatchRetrying(r, e) ==
  /\ outcome' = [outcome EXCEPT ![r] = [kind |-> "threw", error |-> e]]
  /\ res' = [res EXCEPT ![r] = FailedResponse]
  /\ pc' = [pc EXCEPT ![r] = "done"]
  /\ calls' = [calls EXCEPT ![r] = Append(@, @[1])]
  /\ sent' = [sent EXCEPT ![r] = @ + 1]
  /\ UNCHANGED <<server, body, notServer>>

\* the catch block, the gateway call having thrown e
Catch(r, e) ==
  /\ outcome' = [outcome EXCEPT ![r] = [kind |-> "threw", error |-> e]]
  /\ res' = [res EXCEPT ![r] = FailedResponse]
  /\ pc' = [pc EXCEPT ![r] = "done"]
  /\ sent' = [sent EXCEPT ![r] = @ + 1]
  /\ UNCHANGED <<server, body, calls, notServer>>

\* generate-report.js, app.post('/api/sale')
Sale(r, B) ==
  /\ server = "generate-report.js" /\ pc[r] = "idle"
  /\ \E b \in B : Receive(r, b, TransactionData(b))

SaleReturns(r, O) ==
  /\ server = "generate-report.js" /\ pc[r] = "awaiting"
  /\ \E result \in O : Resume(r, result, Respond(result))

SaleThrows(r) ==
  /\ server = "generate-report.js" /\ pc[r] = "awaiting"
  /\ \E e \in GatewayErrors : Catch(r, e)

\* server.js, app.post('/api/sale')
ServerJsSale(r, B) ==
  /\ server = "server.js" /\ pc[r] = "idle"
  /\ \E b \in B : Receive(r, b, ServerJsTransactionData(b))

ServerJsSaleReturns(r, O) ==
  /\ server = "server.js" /\ pc[r] = "awaiting"
  /\ \E result \in O : Resume(r, result, ServerJsRespond(result))

ServerJsSaleThrows(r) ==
  /\ server = "server.js" /\ pc[r] = "awaiting"
  /\ \E e \in GatewayErrors : Catch(r, e)

Next ==
  \E r \in DOMAIN pc :
    \/ Sale(r, Bodies)
    \/ SaleReturns(r, Results)
    \/ SaleThrows(r)
    \/ ServerJsSale(r, Bodies)
    \/ ServerJsSaleReturns(r, Results)
    \/ ServerJsSaleThrows(r)

Spec == Init /\ [][Next]_vars

\* the amount study: the same handlers over every amount input
NextAmount ==
  \E r \in DOMAIN pc :
    \/ Sale(r, AmountBodies)
    \/ SaleReturns(r, FewResults)
    \/ SaleThrows(r)
    \/ ServerJsSale(r, AmountBodies)
    \/ ServerJsSaleReturns(r, FewResults)
    \/ ServerJsSaleThrows(r)

SpecAmount == Init /\ [][NextAmount]_vars

-----------------------------------------------------------------------------
(* GET /client_token (the same handler in generate-report.js and server.js) *)

\* what gateway.clientToken.generate({}) resolves to
ClientTokenResults ==
  {Obj([success |-> Bool(TRUE), clientToken |-> Lit("client-token-A")]),
   Obj([success |-> Bool(TRUE), clientToken |-> Lit("client-token-B")])}

\* variant: the whole gateway response is sent
ClientTokenResponseWhole(response) == [status |-> 200, body |-> response]

\* res.json({clientToken: response.clientToken})
ClientTokenResponse(response) ==
  [status |-> 200, body |-> Obj(DropUndefined([clientToken |-> Get(response, "clientToken")]))]

\* res.status(500).json({error: 'Failed to generate client token'})
ClientTokenFailed ==
  [status |-> 500, body |-> Obj([error |-> Lit("Failed to generate client token")])]

\* the handler up to await gateway.clientToken.generate({})
ClientToken(r) ==
  /\ pc[r] = "idle"
  /\ pc' = [pc EXCEPT ![r] = "awaitingToken"]
  /\ UNCHANGED <<server, body, calls, outcome, res, sent, notServer>>

ClientTokenReturns(r) ==
  /\ pc[r] = "awaitingToken"
  /\ \E response \in ClientTokenResults :
       /\ outcome' = [outcome EXCEPT ![r] = [kind |-> "returned", result |-> response]]
       /\ res' = [res EXCEPT ![r] = ClientTokenResponse(response)]
  /\ pc' = [pc EXCEPT ![r] = "tokenDone"]
  /\ sent' = [sent EXCEPT ![r] = @ + 1]
  /\ UNCHANGED <<server, body, calls, notServer>>

ClientTokenThrows(r) ==
  /\ pc[r] = "awaitingToken"
  /\ \E e \in GatewayErrors :
       /\ outcome' = [outcome EXCEPT ![r] = [kind |-> "threw", error |-> e]]
       /\ res' = [res EXCEPT ![r] = ClientTokenFailed]
  /\ pc' = [pc EXCEPT ![r] = "tokenDone"]
  /\ sent' = [sent EXCEPT ![r] = @ + 1]
  /\ UNCHANGED <<server, body, calls, notServer>>

-----------------------------------------------------------------------------
(* The concurrent study: NumRequests requests of either route, interleaved *)
(* at their awaits, over a few bodies and results                          *)

ConcReqs == 1..NumRequests

ConcBodies ==
  {Body(n, a, b, v, Undef) :
     n \in {Undef, Lit("fake-valid-nonce"), Lit("nonce-2")},
     a \in {Str(<<"1", "0">>), Str(<<"-", "5">>)},
     b \in {Undef, Address(Lit("Jane"), Lit("Doe"))},
     v \in {Undef, Bool(TRUE)}}

ConcResults ==
  {Obj([success |-> Bool(TRUE),
        transaction |-> Transaction(Obj([token |-> Null]), Undef, Undef, Undef, Undef)]),
   Obj([success |-> Bool(TRUE),
        transaction |-> Transaction(Obj([token |-> Lit("tok_1")]), Undef, Undef, Undef,
                                    Obj([id |-> Lit("cust_1")]))]),
   Obj([success |-> Bool(FALSE), message |-> Lit("Do Not Honor")])}

InitConc == InitFor(ConcReqs) /\ PageIdle /\ FormIdle /\ VenmoIdle /\ PayPalIdle /\ ReportIdle

NextConc ==
  \E r \in DOMAIN pc :
    \/ Sale(r, ConcBodies)
    \/ SaleReturns(r, ConcResults)
    \/ SaleThrows(r)
    \/ ServerJsSale(r, ConcBodies)
    \/ ServerJsSaleReturns(r, ConcResults)
    \/ ServerJsSaleThrows(r)
    \/ ClientToken(r)
    \/ ClientTokenReturns(r)
    \/ ClientTokenThrows(r)

SpecConc == InitConc /\ [][NextConc]_vars

-----------------------------------------------------------------------------
(* The termination study: one request, the gateway call settles *)

\* the promise of gateway.transaction.sale settles: the handler runs on
GatewaySettles(r) ==
  \/ SaleReturns(r, ConcResults)
  \/ SaleThrows(r)
  \/ ServerJsSaleReturns(r, ConcResults)
  \/ ServerJsSaleThrows(r)

NextLive ==
  \E r \in DOMAIN pc :
    \/ Sale(r, ConcBodies)
    \/ SaleReturns(r, ConcResults)
    \/ SaleThrows(r)
    \/ ServerJsSale(r, ConcBodies)
    \/ ServerJsSaleReturns(r, ConcResults)
    \/ ServerJsSaleThrows(r)

\* a pending gateway call is not left pending for ever
SpecLive == Init /\ [][NextLive]_vars /\ \A r \in Reqs : WF_vars(GatewaySettles(r))

-----------------------------------------------------------------------------
(* public/hosted-fields.js: what the page shows for a response *)

\* x > 0 on Numbers (false when x is NaN)
GtZero(x) ==
  CASE x.k = "nan" -> FALSE
    [] x.k = "inf" -> ~x.neg
    [] x.k = "huge" -> TRUE
    [] x.k = "fin" -> ~x.neg /\ x.n > 0

\* ${v} in a template literal, for the values a response carries
TemplateText(v) ==
  CASE v.t = "str" -> v.s
    [] v.t = "undefined" -> <<"undefined">>
    [] v.t = "null" -> <<"null">>
    [] v.t = "bool" -> IF v.b THEN <<"true">> ELSE <<"false">>
    [] v.t = "obj" -> <<"[object Object]">>

\* the characters of the card numbers the model keeps in one piece
Chars(s) ==
  IF s = <<"411111******1111">>
    THEN <<"4", "1", "1", "1", "1", "1", "*", "*", "*", "*", "*", "*", "1", "1", "1", "1">>
  ELSE IF s = <<"1111">> THEN <<"1", "1", "1", "1">>
  ELSE s

\* s.slice(-4)
SliceLast4(s) ==
  LET c == Chars(s) IN IF Len(c) <= 4 THEN c ELSE SubSeq(c, Len(c) - 3, Len(c))

\* showResult(message, type)
ShowResult(message, type) == [className |-> "result " \o type, message |-> message]

\* the catch block of processPayment and the last else of the submit handler's
ProcessingFailed ==
  ShowResult(Lit("Payment processing failed. Please try again."), "error")

\* the else branch: showResult(`Payment failed: ${result.error}`, 'error')
PaymentFailed(result) ==
  ShowResult(Str(<<"Payment failed: ">> \o TemplateText(Get(result, "error"))), "error")

\* building the success message raises a TypeError: result.transaction.id
\* without a transaction, maskedNumber.slice(-4) without a masked number
SuccessThrows(result) ==
  \/ Get(result, "transaction").t \in {"undefined", "null"}
  \/ /\ Truthy(Get(result, "vaultedPaymentMethod"))
     /\ Get(Get(result, "vaultedPaymentMethod"), "paymentType") # Lit("PayPal")
     /\ Get(Get(result, "vaultedPaymentMethod"), "maskedNumber").t # "str"

\* the lines added for result.vaultedPaymentMethod
VaultedText(v) ==
  IF ~Truthy(v) THEN <<>>
  ELSE (IF Get(v, "paymentType") = Lit("PayPal")
          THEN <<"Payment Type: PayPal<br>PayPal Email: ">> \o TemplateText(Get(v, "email"))
                 \o <<"<br>Payment Method Token: ">> \o TemplateText(Get(v, "token"))
          ELSE <<"Card ending in: ">> \o SliceLast4(Get(v, "maskedNumber").s)
                 \o <<"<br>Type: ">> \o TemplateText(Get(v, "cardType"))
                 \o <<"<br>Payment Method Token: ">> \o TemplateText(Get(v, "token")))
       \o (IF Truthy(Get(v, "customerId"))
             THEN <<"<br>Customer ID: ">> \o TemplateText(Get(v, "customerId"))
             ELSE <<>>)

\* the submit handler, result.success being truthy and nothing thrown
SubmitSuccessText(result) ==
  <<"Payment successful! Transaction ID: ">>
    \o TemplateText(Get(Get(result, "transaction"), "id"))
    \o <<". Amount: $">> \o TemplateText(Get(Get(result, "transaction"), "amount"))
    \o (IF Truthy(Get(result, "vaultedPaymentMethod"))
          THEN <<"<br><br><strong>Payment Method saved for future use!</strong><br>">>
                 \o VaultedText(Get(result, "vaultedPaymentMethod"))
          ELSE <<>>)

\* processPayment, result.success being truthy and nothing thrown
ProcessPaymentSuccessText(result) ==
  <<"Payment successful! <br> Transaction ID: ">>
    \o TemplateText(Get(Get(result, "transaction"), "id"))
    \o <<" <br> Amount: $">> \o TemplateText(Get(Get(result, "transaction"), "amount"))
    \o (IF Truthy(Get(Get(Get(result, "transaction"), "paypal"),
                      "implicitlyVaultedPaymentMethodToken"))
          THEN <<"<br>Implicitly Vaulted Token: ">>
                 \o TemplateText(Get(Get(Get(result, "transaction"), "paypal"),
                                     "implicitlyVaultedPaymentMethodToken"))
          ELSE <<>>)
    \o (IF Truthy(Get(result, "vaultedPaymentMethod"))
          THEN <<"<br><br>Payment Method saved for future use!<br>">>
                 \o VaultedText(Get(result, "vaultedPaymentMethod"))
          ELSE <<>>)

\* the response was shown as a success (nothing was thrown on the way)
ShownAsSuccess(result) == Truthy(Get(result, "success")) /\ ~SuccessThrows(result)

\* what the submit handler shows for the parsed response
SubmitShows(result) ==
  IF ~Truthy(Get(result, "success")) THEN PaymentFailed(result)
  ELSE IF SuccessThrows(result) THEN ProcessingFailed
  ELSE ShowResult(Str(SubmitSuccessText(result)), "success")

\* what processPayment shows for the parsed response
ProcessPaymentShows(result) ==
  IF ~Truthy(Get(result, "success")) THEN PaymentFailed(result)
  ELSE IF SuccessThrows(result) THEN ProcessingFailed
  ELSE ShowResult(Str(ProcessPaymentSuccessText(result)), "success")

-----------------------------------------------------------------------------
(* public/hosted-fields.js: the card form *)

\* what the user can have in the amount input: nothing, 0, 10.00
AmountValues == {Str(<<>>), Str(<<"0">>), TenDollars}

\* the nonce hostedFieldsInstance.tokenize() resolves with
CardNonce == Lit("fake-valid-nonce")

\* the error codes tokenize() rejects with
TokenizeErrors ==
  {"HOSTED_FIELDS_FIELDS_INVALID", "HOSTED_FIELDS_FIELDS_EMPTY",
   "HOSTED_FIELDS_TOKENIZATION_NETWORK_ERROR"}

\* the parsed bodies of the responses the page is given in the form study
PageResponses ==
  {Respond(result).body : result \in ConcResults}
    \cup {NonceRequired.body, AmountRequired.body, FailedResponse.body}

\* what the handlers of the card form leave alone
notForm == <<serverVars, venmoVars, paypalVars, reportVars>>

\* amountInput.value && parseFloat(amountInput.value) > 0
AmountValid(v) == Truthy(v) /\ GtZero(parseFloat(v))

\* updateSubmitButton(fieldsState): the new submitButton.disabled
UpdateSubmitButton(state, amount) ==
  ~((\A f \in Fields : state[f]) /\ AmountValid(amount))

\* hostedFieldsInstance.on('validityChange'): field f became valid or invalid
ValidityChange(f, v) ==
  /\ hostedFields[f] # v
  /\ hostedFields' = [hostedFields EXCEPT ![f] = v]
  /\ fieldsState' = [fieldsState EXCEPT ![f] = v]
  /\ submitButton' = UpdateSubmitButton(fieldsState', amountInput)
  /\ UNCHANGED <<submits, pageVars, notForm>>

\* hostedFieldsInstance.on('empty'): field f was emptied
Empty(f) ==
  /\ hostedFields' = [hostedFields EXCEPT ![f] = FALSE]
  /\ fieldsState' = [fieldsState EXCEPT ![f] = FALSE]
  /\ submitButton' = UpdateSubmitButton(fieldsState', amountInput)
  /\ UNCHANGED <<submits, pageVars, notForm>>

\* amountInput.addEventListener('input'): the user typed the amount v
AmountInput(v) ==
  /\ amountInput # v
  /\ amountInput' = v
  /\ submitButton' = UpdateSubmitButton(hostedFields, v)
  /\ UNCHANGED <<vaultCheckbox, resultDiv, fetches, fieldsState, hostedFields, submits, notForm>>

\* the submit handler up to await hostedFieldsInstance.tokenize(); the form
\* is submitted through the button, which must be enabled
Submit(s) ==
  /\ submits[s].pc = "idle"
  /\ \A q \in DOMAIN submits : q < s => submits[q].pc # "idle"
  /\ ~submitButton
  /\ IF ~Truthy(amountInput) \/ LeqZero(parseFloat(amountInput))
       THEN /\ resultDiv' = ShowResult(Lit("Please enter a valid amount."), "error")
            /\ submits' = [submits EXCEPT ![s] = [pc |-> "done", amount |-> amountInput]]
            /\ UNCHANGED submitButton
       ELSE /\ submitButton' = TRUE
            /\ submits' = [submits EXCEPT ![s] = [pc |-> "tokenizing", amount |-> amountInput]]
            /\ UNCHANGED resultDiv
  /\ UNCHANGED <<amountInput, vaultCheckbox, fetches, fieldsState, hostedFields, notForm>>

\* tokenize() resolved: the sale is posted
TokenizeResolves(s) ==
  /\ submits[s].pc = "tokenizing"
  /\ \A f \in Fields : hostedFields[f]
  /\ fetches' = Append(fetches,
                       [by |-> "submit", s |-> s, pending |-> TRUE,
                        body |-> Body(CardNonce, submits[s].amount, Undef,
                                      Bool(vaultCheckbox), Undef)])
  /\ submits' = [submits EXCEPT ![s].pc = "fetching"]
  /\ UNCHANGED <<amountInput, vaultCheckbox, resultDiv, submitButton, fieldsState,
                 hostedFields, notForm>>

\* tokenize() rejected with code: the catch block, then setLoading(false)
TokenizeRejects(s, code) ==
  /\ submits[s].pc = "tokenizing"
  /\ resultDiv' =
       IF code = "HOSTED_FIELDS_FIELDS_INVALID"
         THEN ShowResult(Lit("Please check your card information and try again."), "error")
       ELSE IF code = "HOSTED_FIELDS_FIELDS_EMPTY"
         THEN ShowResult(Lit("Please fill out all required fields."), "error")
       ELSE ProcessingFailed
  /\ submitButton' = UpdateSubmitButton(hostedFields, amountInput)
  /\ submits' = [submits EXCEPT ![s].pc = "done"]
  /\ UNCHANGED <<amountInput, vaultCheckbox, fetches, fieldsState, hostedFields, notForm>>

\* the fetch of the submit handler resolved with the parsed body result: the
\* result is shown, on success the form is reset (the vault checkbox goes
\* back to unchecked) and the amount set to 10.00; then setLoading(false)
SubmitFetchResolves(i, result) ==
  /\ i \in DOMAIN fetches
  /\ fetches[i].pending /\ fetches[i].by = "submit"
  /\ resultDiv' = SubmitShows(result)
  /\ IF ShownAsSuccess(result)
       THEN amountInput' = TenDollars /\ vaultCheckbox' = FALSE
       ELSE UNCHANGED <<amountInput, vaultCheckbox>>
  /\ submitButton' = UpdateSubmitButton(hostedFields, amountInput')
  /\ submits' = [submits EXCEPT ![fetches[i].s].pc = "done"]
  /\ fetches' = [fetches EXCEPT ![i].pending = FALSE]
  /\ UNCHANGED <<fieldsState, hostedFields, notForm>>

\* the fetch of the submit handler rejected (the network failed)
SubmitFetchRejects(i) ==
  /\ i \in DOMAIN fetches
  /\ fetches[i].pending /\ fetches[i].by = "submit"
  /\ resultDiv' = ProcessingFailed
  /\ submitButton' = UpdateSubmitButton(hostedFields, amountInput)
  /\ submits' = [submits EXCEPT ![fetches[i].s].pc = "done"]
  /\ fetches' = [fetches EXCEPT ![i].pending = FALSE]
  /\ UNCHANGED <<amountInput, vaultCheckbox, fieldsState, hostedFields, notForm>>

\* the page after initializeBraintree, before anything is typed
InitSubmit ==
  /\ InitFor(Reqs) /\ VenmoIdle /\ PayPalIdle /\ ReportIdle
  /\ PageIdle /\ FormIdle

NextSubmit ==
  \/ \E f \in Fields, v \in BOOLEAN : ValidityChange(f, v)
  \/ \E f \in Fields : Empty(f)
  \/ \E v \in AmountValues : AmountInput(v)
  \/ \E s \in SubmitIds : Submit(s)
  \/ \E s \in SubmitIds : TokenizeResolves(s)
  \/ \E s \in SubmitIds, code \in TokenizeErrors : TokenizeRejects(s, code)
  \/ \E i \in 1..NumSubmits, result \in PageResponses : SubmitFetchResolves(i, result)
  \/ \E i \in 1..NumSubmits : SubmitFetchRejects(i)

SpecSubmit == InitSubmit /\ [][NextSubmit]_vars

-----------------------------------------------------------------------------
(* public/hosted-fields.js: PayPal and processPayment *)

\* the nonce paypalCheckoutInstance.tokenizePayment resolves with
PayPalNonce == Lit("nonce-2")

\* what the PayPal handlers leave alone
notPayPal == <<serverVars, formVars, venmoVars, reportVars>>

\* initializePayPal up to braintree.paypalCheckout.create: the container is
\* emptied and a new promise chain starts
InitializePayPal ==
  /\ paypalButton' = [paypalButton EXCEPT !.buttons = {}]
  /\ paypalInits' = Append(paypalInits, "creating")

\* the change listener of the vault checkbox: the user ticks or unticks it
VaultChange ==
  /\ Len(paypalInits) <= MaxChanges
  /\ vaultCheckbox' = ~vaultCheckbox
  /\ InitializePayPal
  /\ UNCHANGED <<amountInput, resultDiv, fetches, paypalOrder, notPayPal>>

\* braintree.paypalCheckout.create resolved: loadPayPalSDK is called
PayPalCreateResolves(c) ==
  /\ c \in DOMAIN paypalInits /\ paypalInits[c] = "creating"
  /\ paypalInits' = [paypalInits EXCEPT ![c] = "loading"]
  /\ UNCHANGED <<paypalButton, paypalOrder, pageVars, notPayPal>>

\* loadPayPalSDK resolved: getButtonConfig() reads the checkbox and the button
\* is rendered with createOrder asking for a billing agreement or not
RenderButton(c) ==
  /\ c \in DOMAIN paypalInits /\ paypalInits[c] = "loading"
  /\ paypalButton' = [paypalButton EXCEPT !.buttons = @ \cup {vaultCheckbox}]
  /\ paypalInits' = [paypalInits EXCEPT ![c] = "done"]
  /\ UNCHANGED <<paypalOrder, pageVars, notPayPal>>

\* a step of the chain rejected: the catch hides the container
PayPalInitFails(c) ==
  /\ c \in DOMAIN paypalInits /\ paypalInits[c] \in {"creating", "loading"}
  /\ paypalInits' = [paypalInits EXCEPT ![c] = "failed"]
  /\ paypalButton' = [paypalButton EXCEPT !.hidden = TRUE]
  /\ UNCHANGED <<paypalOrder, pageVars, notPayPal>>

\* the user clicks a rendered button: its createOrder runs
CreateOrder(b) ==
  /\ paypalOrder.stage = "none"
  /\ ~paypalButton.hidden /\ b \in paypalButton.buttons
  /\ IF ~Truthy(amountInput) \/ LeqZero(parseFloat(amountInput))
       THEN /\ resultDiv' = ShowResult(Lit("Please enter a valid amount."), "error")
            /\ UNCHANGED paypalOrder
       ELSE /\ paypalOrder' = [stage |-> "approving", requestBillingAgreement |-> b, fetch |-> 0]
            /\ UNCHANGED resultDiv
  /\ UNCHANGED <<amountInput, vaultCheckbox, fetches, paypalButton, paypalInits, notPayPal>>

\* onApprove: tokenizePayment(data) is called
OnApprove ==
  /\ paypalOrder.stage = "approving"
  /\ paypalOrder' = [paypalOrder EXCEPT !.stage = "tokenizing"]
  /\ UNCHANGED <<paypalButton, paypalInits, pageVars, notPayPal>>

\* onCancel
OnCancel ==
  /\ paypalOrder.stage = "approving"
  /\ paypalOrder' = NoOrder
  /\ resultDiv' = ShowResult(Lit("PayPal payment was cancelled."), "info")
  /\ UNCHANGED <<amountInput, vaultCheckbox, fetches, paypalButton, paypalInits, notPayPal>>

\* onError: the approval failed or tokenizePayment rejected
OnError ==
  /\ paypalOrder.stage \in {"approving", "tokenizing"}
  /\ paypalOrder' = NoOrder
  /\ resultDiv' = ShowResult(Lit("PayPal payment failed. Please try again."), "error")
  /\ UNCHANGED <<amountInput, vaultCheckbox, fetches, paypalButton, paypalInits, notPayPal>>

\* processPayment(nonce, amount) up to await fetch('/api/sale'): the body
\* carries vaultCheckbox.checked as it is now
ProcessPayment(nonce, amount) ==
  fetches' = Append(fetches,
                    [by |-> "processPayment", s |-> 0, pending |-> TRUE,
                     body |-> Body(nonce, amount, Undef, Bool(vaultCheckbox), Undef)])

\* tokenizePayment resolved: 'Processing your payment...', then processPayment
TokenizePaymentResolves ==
  /\ paypalOrder.stage = "tokenizing"
  /\ resultDiv' = ShowResult(Lit("Processing your payment..."), "info")
  /\ ProcessPayment(PayPalNonce, amountInput)
  /\ paypalOrder' = [paypalOrder EXCEPT !.stage = "posted", !.fetch = Len(fetches) + 1]
  /\ UNCHANGED <<amountInput, vaultCheckbox, paypalButton, paypalInits, notPayPal>>

\* the fetch of processPayment resolved with the parsed body result
ProcessPaymentResolves(i, result) ==
  /\ i \in DOMAIN fetches
  /\ fetches[i].pending /\ fetches[i].by = "processPayment"
  /\ resultDiv' = ProcessPaymentShows(result)
  /\ amountInput' = IF ShownAsSuccess(result) THEN TenDollars ELSE amountInput
  /\ fetches' = [fetches EXCEPT ![i].pending = FALSE]
  /\ UNCHANGED <<vaultCheckbox, paypalVars, notPayPal>>

\* the fetch of processPayment rejected: the catch block
ProcessPaymentRejects(i) ==
  /\ i \in DOMAIN fetches
  /\ fetches[i].pending /\ fetches[i].by = "processPayment"
  /\ resultDiv' = ProcessingFailed
  /\ fetches' = [fetches EXCEPT ![i].pending = FALSE]
  /\ UNCHANGED <<amountInput, vaultCheckbox, paypalVars, notPayPal>>

\* the page once the change listener of the checkbox is attached: the first
\* initializePayPal(clientInstance) of initializeBraintree is under way
InitPayPal ==
  /\ InitFor(Reqs) /\ FormIdle /\ VenmoIdle /\ ReportIdle
  /\ PageIdle
  /\ paypalButton = [hidden |-> FALSE, buttons |-> {}]
  /\ paypalInits = <<"creating">>
  /\ paypalOrder = NoOrder

NextPayPal ==
  \/ VaultChange
  \/ \E c \in 1..(MaxChanges + 1) : PayPalCreateResolves(c)
  \/ \E c \in 1..(MaxChanges + 1) : RenderButton(c)
  \/ \E c \in 1..(MaxChanges + 1) : PayPalInitFails(c)
  \/ \E b \in BOOLEAN : CreateOrder(b)
  \/ OnApprove
  \/ OnCancel
  \/ OnError
  \/ TokenizePaymentResolves
  \/ \E result \in PageResponses : ProcessPaymentResolves(1, result)
  \/ ProcessPaymentRejects(1)

SpecPayPal == InitPayPal /\ [][NextPayPal]_vars

-----------------------------------------------------------------------------
(* The page and the server of generate-report.js together: one payment, by *)
(* card or by PayPal, from the post to the result shown                    *)

\* the body the page posted reaches app.post('/api/sale')
PostArrives(r) ==
  /\ r \in DOMAIN fetches
  /\ fetches[r].pending
  /\ Sale(r, {fetches[r].body})

\* the response reaches the submit handler
SubmitAnswered(r) ==
  /\ pc[r] = "done"
  /\ SubmitFetchResolves(r, res[r].body)

\* the response reaches processPayment
ProcessPaymentAnswered(r) ==
  /\ pc[r] = "done"
  /\ ProcessPaymentResolves(r, res[r].body)

\* the page ready to pay: card fields valid, PayPal button rendered for the
\* state of the vault checkbox
InitDisplay ==
  /\ InitFor(Reqs) /\ server = "generate-report.js"
  /\ VenmoIdle /\ ReportIdle
  /\ amountInput = TenDollars
  /\ vaultCheckbox \in BOOLEAN
  /\ resultDiv = Hidden
  /\ fetches = <<>>
  /\ submitButton = FALSE
  /\ fieldsState = [f \in Fields |-> TRUE]
  /\ hostedFields = [f \in Fields |-> TRUE]
  /\ submits = [s \in SubmitIds |-> [pc |-> "idle", amount |-> Undef]]
  /\ paypalButton = [hidden |-> FALSE, buttons |-> {vaultCheckbox}]
  /\ paypalInits = <<"done">>
  /\ paypalOrder = NoOrder

NextDisplay ==
  \/ \E s \in SubmitIds : Submit(s)
  \/ \E s \in SubmitIds : TokenizeResolves(s)
  \/ \E b \in BOOLEAN : CreateOrder(b)
  \/ OnApprove
  \/ TokenizePaymentResolves
  \/ \E r \in Reqs : PostArrives(r)
  \/ \E r \in Reqs : SaleReturns(r, Results)
  \/ \E r \in Reqs : SaleThrows(r)
  \/ \E r \in Reqs : SubmitAnswered(r)
  \/ \E r \in Reqs : ProcessPaymentAnswered(r)

SpecDisplay == InitDisplay /\ [][NextDisplay]_vars

-----------------------------------------------------------------------------
(* public/hosted-fields.js: the Venmo mode toggle *)

\* what the Venmo handlers leave alone
notVenmo == <<serverVars, pageVars, formVars, paypalVars, reportVars>>

\* modeText of the button initializeVenmo renders
VenmoButtonText(useDesktopMode) ==
  IF useDesktopMode THEN "Pay with Venmo (QR Code)" ELSE "Pay with Venmo (Web Login)"

\* the change listener of the toggle: 'Switching mode...', then
\* initializeVenmo(clientInstance, this.checked) up to its first await: the
\* teardown of the instance venmoInstance names now
ToggleChange ==
  /\ Len(venmoInits) < MaxToggles
  /\ venmoToggle' = ~venmoToggle
  /\ venmoButton' = "Switching mode..."
  /\ venmoInits' = Append(venmoInits,
                          [pc |-> IF venmoInstance # 0 THEN "teardown" ELSE "create",
                           useDesktopMode |-> ~venmoToggle,
                           tearing |-> venmoInstance])
  /\ UNCHANGED <<venmoInstance, venmoCreated, notVenmo>>

\* await venmoInstance.teardown() resolved: braintree.venmo.create is called
TeardownResolves(c) ==
  /\ c \in DOMAIN venmoInits /\ venmoInits[c].pc = "teardown"
  /\ venmoCreated' = [venmoCreated EXCEPT ![venmoInits[c].tearing].torn = TRUE]
  /\ venmoInits' = [venmoInits EXCEPT ![c].pc = "create"]
  /\ UNCHANGED <<venmoToggle, venmoInstance, venmoButton, notVenmo>>

\* teardown() of an instance already torn down rejected: the catch block
TeardownRejects(c) ==
  /\ c \in DOMAIN venmoInits /\ venmoInits[c].pc = "teardown"
  /\ venmoCreated[venmoInits[c].tearing].torn
  /\ venmoInits' = [venmoInits EXCEPT ![c].pc = "failed"]
  /\ venmoButton' = "hidden"
  /\ UNCHANGED <<venmoToggle, venmoInstance, venmoCreated, notVenmo>>

\* venmoInstance = await braintree.venmo.create(venmoConfig) resolved: the
\* global names the new instance and the button is rendered
CreateResolves(c) ==
  /\ c \in DOMAIN venmoInits /\ venmoInits[c].pc = "create"
  /\ venmoCreated' = Append(venmoCreated,
                            [mode |-> venmoInits[c].useDesktopMode, torn |-> FALSE])
  /\ venmoInstance' = Len(venmoCreated) + 1
  /\ venmoButton' = VenmoButtonText(venmoInits[c].useDesktopMode)
  /\ venmoInits' = [venmoInits EXCEPT ![c].pc = "done"]
  /\ UNCHANGED <<venmoToggle, notVenmo>>

\* braintree.venmo.create rejected: the catch block
CreateRejects(c) ==
  /\ c \in DOMAIN venmoInits /\ venmoInits[c].pc = "create"
  /\ venmoInits' = [venmoInits EXCEPT ![c].pc = "failed"]
  /\ venmoButton' = "hidden"
  /\ UNCHANGED <<venmoToggle, venmoInstance, venmoCreated, notVenmo>>

\* the page once setupVenmoToggle has run
InitVenmo ==
  /\ InitFor(Reqs) /\ PageIdle /\ FormIdle /\ PayPalIdle /\ ReportIdle
  /\ VenmoIdle

NextVenmo ==
  \/ ToggleChange
  \/ \E c \in 1..MaxToggles : TeardownResolves(c)
  \/ \E c \in 1..MaxToggles : TeardownRejects(c)
  \/ \E c \in 1..MaxToggles : CreateResolves(c)
  \/ \E c \in 1..MaxToggles : CreateRejects(c)

SpecVenmo == InitVenmo /\ [][NextVenmo]_vars

-----------------------------------------------------------------------------
(* generate-report.js: the report generator *)

\* the words a command line is made of
ArgTokens ==
  {Lit("--days"), Lit("--format"), Lit("--output"), Lit("--help"), Lit("-h"),
   Lit("--bogus"), Lit("csv"), Lit("json"), Lit("table"), Lit("xml"), Lit("out.csv"),
   Str(<<>>), Str(<<"7">>), Str(<<"0">>)}

\* what the report generator leaves alone
notReport == <<serverVars, pageVars, formVars, venmoVars, paypalVars>>

\* parseInt(v): an optional sign and the leading digits, NaN without a digit
ParseInt(v) ==
  IF v.t # "str" THEN NaN
  ELSE LET s == TrimStart(v.s)
           signed == s # <<>> /\ s[1] \in {"+", "-"}
           t == IF signed THEN Tail(s) ELSE s
           k == SpanLen(t, Digits)
       IN  IF k = 0 THEN NaN
           ELSE Fin(signed /\ s[1] = "-", DigitsVal(SubSeq(t, 1, k)), 0)

\* const options = {days: 1, format: 'csv', output: null, help: false}
DefaultOptions ==
  [days |-> Num(Fin(FALSE, 1, 0)), format |-> Lit("csv"), output |-> Null,
   help |-> Bool(FALSE)]

\* args[i], undefined past the end
Arg(args, i) == IF i \in DOMAIN args THEN args[i] ELSE Undef

ValidFormats == {Lit("csv"), Lit("json"), Lit("table")}

\* the for loop of parseArgs from index i on: exit is 1 when the default
\* case called process.exit(1), -1 when the loop ran to its end
RECURSIVE ParseLoop(_, _, _)
ParseLoop(args, i, o) ==
  IF i > Len(args) THEN [exit |-> -1, options |-> o]
  ELSE CASE args[i] = Lit("--days") ->
              ParseLoop(args, i + 2,
                        [o EXCEPT !.days = OrElse(Num(ParseInt(Arg(args, i + 1))),
                                                  Num(Fin(FALSE, 1, 0)))])
         [] args[i] = Lit("--format") ->
              ParseLoop(args, i + 2,
                        [o EXCEPT !.format = OrElse(Arg(args, i + 1), Lit("csv"))])
         [] args[i] = Lit("--output") ->
              ParseLoop(args, i + 2, [o EXCEPT !.output = Arg(args, i + 1)])
         [] args[i] \in {Lit("--help"), Lit("-h")} ->
              ParseLoop(args, i + 1, [o EXCEPT !.help = Bool(TRUE)])
         [] OTHER -> [exit |-> 1, options |-> o]

\* variant: the format is not validated after the loop
ParseArgsAnyFormat(args) == ParseLoop(args, 1, DefaultOptions)

\* parseArgs(args)
ParseArgs(args) ==
  LET p == ParseLoop(args, 1, DefaultOptions)
  IN  IF p.exit = -1 /\ p.options.format \notin ValidFormats
        THEN [exit |-> 1, options |-> p.options]
        ELSE p

\* generateCSV / generateJSON: the file written for the options (none for table)
OutputFile(o) ==
  IF o.format = Lit("table") THEN <<>>
  ELSE IF Truthy(o.output) THEN <<o.output>>
  ELSE <<Str(<<"transaction_report_", "<date>", ".">> \o o.format.s)>>

\* the module top level: parseArgs, --help, the credentials, then main() up
\* to await fetchTransactions(options.days), which issues the search
RunReport(credentials) ==
  /\ reportPc = "start"
  /\ LET p == ParseArgs(argv)
     IN  /\ options' = p.options
         /\ IF p.exit = 1
              THEN exitCode' = 1 /\ reportPc' = "exited" /\ UNCHANGED searches
            ELSE IF Truthy(p.options.help)
              THEN exitCode' = 0 /\ reportPc' = "exited" /\ UNCHANGED searches
            ELSE IF ~credentials
              THEN exitCode' = 1 /\ reportPc' = "exited" /\ UNCHANGED searches
            ELSE /\ searches' = searches + 1
                 /\ reportPc' = "searching"
                 /\ UNCHANGED exitCode
  /\ UNCHANGED <<argv, files, notReport>>

\* the search called back with n transactions: generateOutput unless n is 0
SearchReturns(n) ==
  /\ reportPc = "searching"
  /\ files' = IF n = 0 THEN files ELSE files \o OutputFile(options)
  /\ reportPc' = "done"
  /\ exitCode' = 0
  /\ UNCHANGED <<argv, options, searches, notReport>>

\* the search called back with an error: the catch of main, process.exit(1)
SearchFails ==
  /\ reportPc = "searching"
  /\ reportPc' = "exited"
  /\ exitCode' = 1
  /\ UNCHANGED <<argv, options, searches, files, notReport>>

\* every command line of at most MaxArgs words
InitReport ==
  /\ InitFor(Reqs) /\ PageIdle /\ FormIdle /\ VenmoIdle /\ PayPalIdle
  /\ argv \in UNION {[1..k -> ArgTokens] : k \in 0..MaxArgs}
  /\ reportPc = "start"
  /\ options = DefaultOptions
  /\ exitCode = -1
  /\ searches = 0
  /\ files = <<>>

NextReport ==
  \/ \E credentials \in BOOLEAN : RunReport(credentials)
  \/ \E n \in {0, 2} : SearchReturns(n)
  \/ SearchFails

SpecReport == InitReport /\ [][NextReport]_vars

-----------------------------------------------------------------------------
(* Vocabulary of the properties *)

\* the transaction data of the gateway calls of request r
CallsOf(r) == {calls[r][i] : i \in 1..Len(calls[r])}

\* a nonce that is absent or empty
AbsentOrEmpty(v) == v \in {Undef, Null, Str(<<>>)}

\* a decimal numeral: optional sign, digits with at most one point, at least
\* one digit, blanks allowed around it
IsNumeral(s) ==
  LET t == TrimEnd(TrimStart(s))
      u == IF t # <<>> /\ t[1] \in {"+", "-"} THEN Tail(t) ELSE t
  IN  /\ \E i \in 1..Len(u) : u[i] \in Digits
      /\ \A i \in 1..Len(u) : u[i] \in Digits \cup {"."}
      /\ Cardinality({i \in 1..Len(u) : u[i] = "."}) <= 1

\* an amount that is a number: a JSON number, or a string that is a numeral
\* or names an infinity
IsNumeric(a) ==
  \/ a.t = "num" /\ a.x.k # "nan"
  \/ a.t = "str" /\ (IsNumeral(a.s) \/ StringToNumber(a.s).k = "inf")

\* an amount that is missing, not numeric, or at most zero
BadAmount(a) ==
  \/ AbsentOrEmpty(a)
  \/ ~IsNumeric(a)
  \/ LeqZero(ToNumber(a))

\* a decimal string with exactly two digits after the point
TwoDecimals(s) ==
  /\ Len(s) >= 4
  /\ s[Len(s) - 2] = "."
  /\ \A i \in 1..Len(s) : i # Len(s) - 2 => s[i] \in Digits

\* the number of cents that a two-decimal string denotes
CentsOf(s) == 100 * DigitsVal(SubSeq(s, 1, Len(s) - 3)) + DigitsVal(SubSeq(s, Len(s) - 1, Len(s)))

Abs(i) == IF i < 0 THEN -i ELSE i

-----------------------------------------------------------------------------
(* Properties *)

\* C1: a request whose nonce is absent or empty is answered 400 'Payment
\* method nonce is required' and causes no gateway.transaction.sale call.
C1_MissingNonceRejected ==
  \A r \in DOMAIN pc :
    (pc[r] # "idle" /\ AbsentOrEmpty(body[r].paymentMethodNonce))
      => /\ pc[r] = "done"
         /\ res[r] = NonceRequired
         /\ calls[r] = <<>>

C1_Witness ==
  \E r \in DOMAIN pc :
    /\ pc[r] = "done"
    /\ body[r].paymentMethodNonce = Str(<<>>)
    /\ ~BadAmount(body[r].amount)
    /\ res[r].status = 400

\* C2 (as claimed): a request with a nonce whose amount is missing, not
\* numeric or at most zero is answered 400 'Valid amount is required' and
\* never reaches the gateway.
C2_BadAmountRejected ==
  \A r \in DOMAIN pc :
    (pc[r] # "idle" /\ ~AbsentOrEmpty(body[r].paymentMethodNonce) /\ BadAmount(body[r].amount))
      => /\ pc[r] = "done"
         /\ res[r] = AmountRequired
         /\ calls[r] = <<>>

\* C3 (as claimed): the amount of every transaction data handed to the
\* gateway is a decimal string with exactly two digits after the point.
C3_AmountHasTwoDecimals ==
  \A r \in DOMAIN pc : \A td \in CallsOf(r) : TwoDecimals(td.amount)

C5_AlwaysSubmitForSettlement ==
  \A r \in DOMAIN pc : \A td \in CallsOf(r) : td.options.submitForSettlement = TRUE

C5_Witness ==
  \E r \in DOMAIN pc :
    /\ pc[r] = "awaiting"
    /\ body[r].vaultPaymentMethod = Bool(TRUE)
    /\ body[r].billingAddress.t = "obj"
    /\ calls[r][1].options.submitForSettlement = TRUE

StoresInVault(td) ==
  "storeInVaultOnSuccess" \in DOMAIN td.options /\ td.options.storeInVaultOnSuccess = TRUE

\* C6 (as claimed): in every transaction data handed to the gateway the
\* customer is present exactly when storeInVaultOnSuccess is true, and both
\* exactly when the request's vaultPaymentMethod was true.
C6_CustomerIffVault ==
  \A r \in DOMAIN pc : \A td \in CallsOf(r) :
    /\ ("customer" \in DOMAIN td) <=> StoresInVault(td)
    /\ StoresInVault(td) <=> (body[r].vaultPaymentMethod = Bool(TRUE))

\* C7: a billingAddress of the request is the billing of the transaction
\* data, unchanged; without a billingAddress there is no billing key.
C7_BillingCopiedVerbatim ==
  \A r \in DOMAIN pc : \A td \in CallsOf(r) :
    IF body[r].billingAddress.t = "obj"
      THEN "billing" \in DOMAIN td /\ td.billing = body[r].billingAddress
      ELSE "billing" \notin DOMAIN td

C7_Witness ==
  \E r \in DOMAIN pc :
    /\ pc[r] = "awaiting"
    /\ body[r].billingAddress = Address(Lit("Jane"), Lit("Doe"))
    /\ calls[r][1].billing = Address(Lit("Jane"), Lit("Doe"))

C9_PlaceholderFromType ==
  \A r \in DOMAIN pc : \A td \in CallsOf(r) :
    (/\ server = "generate-report.js"
     /\ body[r].vaultPaymentMethod = Bool(TRUE)
     /\ body[r].billingAddress.t # "obj"
     /\ body[r].paymentMethodType.t = "str")
      => /\ "customer" \in DOMAIN td
         /\ td.customer.firstName = body[r].paymentMethodType
         /\ td.customer.lastName = Lit("Customer")

\* an instrument sub-object with a non-empty token
Populated(o) ==
  /\ o.t = "obj"
  /\ "token" \in DOMAIN o.f
  /\ o.f["token"].t = "str"
  /\ o.f["token"].s # <<>>

\* the variant of a vaultedPaymentMethod, read off its keys
VariantOf(v) ==
  IF "paymentType" \notin DOMAIN v.f THEN "creditCard"
  ELSE IF v.f["paymentType"] = Lit("PayPal") THEN "paypal"
  ELSE IF v.f["paymentType"] = Lit("Venmo") THEN "venmoAccount"
  ELSE "androidPayCard"

InstrumentOrder == <<"creditCard", "paypal", "venmoAccount", "androidPayCard">>

\* C10: generate-report.js, a successful outcome: vaultedPaymentMethod is the
\* variant of the first sub-object, in the order creditCard, paypal,
\* venmoAccount, androidPayCard, that has a non-empty token; later populated
\* sub-objects do not matter.
C10_FirstPopulatedInstrumentWins ==
  \A r \in DOMAIN pc :
    (/\ server = "generate-report.js"
     /\ pc[r] = "done"
     /\ outcome[r].kind = "returned"
     /\ Get(outcome[r].result, "success") = Bool(TRUE)
     /\ Get(outcome[r].result, "transaction").t = "obj")
      => LET tx == Get(outcome[r].result, "transaction")
             v  == Get(res[r].body, "vaultedPaymentMethod")
         IN  \A i \in 1..Len(InstrumentOrder) :
               (/\ Populated(Get(tx, InstrumentOrder[i]))
                /\ \A j \in 1..(i - 1) : ~Populated(Get(tx, InstrumentOrder[j])))
                 => /\ v.t = "obj"
                    /\ VariantOf(v) = InstrumentOrder[i]
                    /\ i # 2 => Get(v, "token") = Get(Get(tx, InstrumentOrder[i]), "token")

C10_Witness ==
  \E r \in DOMAIN pc :
    /\ server = "generate-report.js"
    /\ pc[r] = "done"
    /\ outcome[r].kind = "returned"
    /\ Populated(Get(Get(outcome[r].result, "transaction"), "creditCard"))
    /\ Populated(Get(Get(outcome[r].result, "transaction"), "paypal"))
    /\ res[r].status = 200
    /\ Get(Get(res[r].body, "vaultedPaymentMethod"), "token") = Lit("tok_1")
    /\ VariantOf(Get(res[r].body, "vaultedPaymentMethod")) = "creditCard"

\* request r is finished and the gateway returned a result for it
Returned(r) == pc[r] = "done" /\ outcome[r].kind = "returned"

\* the transaction of the result returned for r
TxOf(r) == Get(outcome[r].result, "transaction")

\* the result returned for r is a success with a transaction
Succeeded(r) ==
  /\ Returned(r)
  /\ Get(outcome[r].result, "success") = Bool(TRUE)
  /\ TxOf(r).t = "obj"

\* the result returned for r is a failure
Declined(r) == Returned(r) /\ Get(outcome[r].result, "success") = Bool(FALSE)

\* the vaultedPaymentMethod of the response to r (Undef when it has none)
VaultedOf(r) == Get(res[r].body, "vaultedPaymentMethod")

\* C11: generate-report.js, the PayPal sub-object is the one normalized: the
\* returned token is the implicitly vaulted token when the sub-object has
\* one, else the primary token.
C11_ImplicitTokenPreferred ==
  \A r \in DOMAIN pc :
    (/\ server = "generate-report.js"
     /\ Succeeded(r)
     /\ ~Populated(Get(TxOf(r), "creditCard"))
     /\ Populated(Get(TxOf(r), "paypal")))
      => LET pp == Get(TxOf(r), "paypal")
         IN  Get(VaultedOf(r), "token") =
               (IF "implicitlyVaultedPaymentMethodToken" \in DOMAIN pp.f
                  THEN pp.f["implicitlyVaultedPaymentMethodToken"]
                  ELSE pp.f["token"])

C11_Witness ==
  \E r \in DOMAIN pc :
    /\ server = "generate-report.js"
    /\ Succeeded(r)
    /\ ~Populated(Get(TxOf(r), "creditCard"))
    /\ Get(Get(TxOf(r), "paypal"), "token") = Lit("pp_tok")
    /\ Get(Get(TxOf(r), "paypal"), "implicitlyVaultedPaymentMethodToken") = Lit("pp_implicit")
    /\ Get(VaultedOf(r), "token") = Lit("pp_implicit")

\* C12 (as claimed): the response has a vaultedPaymentMethod exactly when the
\* outcome was a success and one of creditCard, paypal, venmoAccount,
\* androidPayCard carries a token.
C12_VaultedIffTokenData ==
  \A r \in DOMAIN pc :
    pc[r] = "done"
      => (("vaultedPaymentMethod" \in DOMAIN res[r].body.f)
            <=> (/\ Succeeded(r)
                 /\ \E i \in 1..Len(InstrumentOrder) :
                      Populated(Get(TxOf(r), InstrumentOrder[i]))))

\* C13: a failed outcome, whatever instrument data it carries, is answered
\* without vaultedPaymentMethod and without transaction.
C13_FailureYieldsNone ==
  \A r \in DOMAIN pc :
    Declined(r)
      => /\ "vaultedPaymentMethod" \notin DOMAIN res[r].body.f
         /\ "transaction" \notin DOMAIN res[r].body.f

C13_Witness ==
  \E r \in DOMAIN pc :
    /\ server = "generate-report.js"
    /\ Declined(r)
    /\ Populated(Get(TxOf(r), "creditCard"))
    /\ Populated(Get(TxOf(r), "paypal"))
    /\ "vaultedPaymentMethod" \notin DOMAIN res[r].body.f

\* the transaction object of the response to r
ResponseTx(r) == Get(res[r].body, "transaction")

\* the response to r is 200, success true, and its transaction carries id,
\* status and amount of the gateway transaction
CoreOfTransactionReturned(r) ==
  /\ res[r].status = 200
  /\ Get(res[r].body, "success") = Bool(TRUE)
  /\ ResponseTx(r).t = "obj"
  /\ {"id", "status", "amount"} \subseteq DOMAIN ResponseTx(r).f
  /\ \A k \in {"id", "status", "amount"} : ResponseTx(r).f[k] = Get(TxOf(r), k)

\* C14 (as claimed): a success is answered 200, success true, with a
\* transaction object whose fields are exactly id, status and amount of the
\* gateway transaction.
C14_TransactionExactlyThreeFields ==
  \A r \in DOMAIN pc :
    Succeeded(r)
      => /\ CoreOfTransactionReturned(r)
         /\ DOMAIN ResponseTx(r).f = {"id", "status", "amount"}

\* C14 (amended): a success is answered 200, success true, with a transaction
\* object that carries id, status and amount of the gateway transaction and,
\* in generate-report.js only, the gateway transaction's paypal sub-object,
\* whole, when it has one; nothing else of the gateway transaction is in it.
C14_TransactionFieldsAndPayPal ==
  \A r \in DOMAIN pc :
    Succeeded(r)
      => /\ CoreOfTransactionReturned(r)
         /\ DOMAIN ResponseTx(r).f \subseteq {"id", "status", "amount", "paypal"}
         /\ ("paypal" \in DOMAIN ResponseTx(r).f)
              <=> (server = "generate-report.js" /\ "paypal" \in DOMAIN TxOf(r).f)
         /\ "paypal" \in DOMAIN ResponseTx(r).f
              => ResponseTx(r).f["paypal"] = TxOf(r).f["paypal"]

C14_Witness ==
  \E r \in DOMAIN pc :
    /\ server = "generate-report.js"
    /\ Succeeded(r)
    /\ Populated(Get(TxOf(r), "creditCard"))
    /\ Get(TxOf(r), "paypal") = Obj([payerEmail |-> Lit("jane@example.com")])
    /\ Get(ResponseTx(r), "paypal") = Obj([payerEmail |-> Lit("jane@example.com")])
    /\ Get(ResponseTx(r), "id") = Lit("txn_1")

\* position in InstrumentOrder of the first populated sub-object, 0 if none
Winner(tx) ==
  IF \E i \in 1..Len(InstrumentOrder) : Populated(Get(tx, InstrumentOrder[i]))
    THEN CHOOSE i \in 1..Len(InstrumentOrder) :
           /\ Populated(Get(tx, InstrumentOrder[i]))
           /\ \A j \in 1..(i - 1) : ~Populated(Get(tx, InstrumentOrder[j]))
    ELSE 0

ExampleCreditCard ==
  Obj([token |-> Lit("tok_1"), maskedNumber |-> Lit("411111******1111"), cardType |-> Lit("Visa")])

\* C15 (as claimed, its example): generate-report.js, the winning creditCard
\* is {token: "tok_1", maskedNumber: "411111******1111", cardType: "Visa"}:
\* the vaultedPaymentMethod returned is that object, a customerId being added
\* only when the transaction has a customer.
C15_ExampleReturnedAsIs ==
  \A r \in DOMAIN pc :
    (/\ server = "generate-report.js"
     /\ Succeeded(r)
     /\ Get(TxOf(r), "creditCard") = ExampleCreditCard
     /\ "customer" \notin DOMAIN TxOf(r).f)
      => VaultedOf(r) = ExampleCreditCard

\* C15 (amended): generate-report.js: the fields of vaultedPaymentMethod are
\* those of the winning sub-object (token, and maskedNumber and cardType, or
\* email = payerEmail, or username, or maskedNumber = last4 and cardType; a
\* field the sub-object lacks is left out), a paymentType of "PayPal",
\* "Venmo" or "Google Pay" on the three variants that are not a credit card,
\* and a customerId that is always there: the id of the transaction's
\* customer, null without a customer.  The example yields {token: "tok_1",
\* maskedNumber: "411111******1111", cardType: "Visa", customerId: null}.
C15_FieldsOfWinner ==
  \A r \in DOMAIN pc :
    (server = "generate-report.js" /\ Succeeded(r) /\ Winner(TxOf(r)) # 0)
      => LET tx == TxOf(r)
             w  == Winner(tx)
             o  == Get(tx, InstrumentOrder[w])
             v  == VaultedOf(r)
         IN  /\ v.t = "obj"
             /\ "customerId" \in DOMAIN v.f
             /\ v.f["customerId"] =
                  (IF "customer" \in DOMAIN tx.f THEN Get(tx.f["customer"], "id") ELSE Null)
             /\ w = 1 => /\ DOMAIN v.f \subseteq {"token", "maskedNumber", "cardType", "customerId"}
                         /\ Get(v, "token") = Get(o, "token")
                         /\ Get(v, "maskedNumber") = Get(o, "maskedNumber")
                         /\ Get(v, "cardType") = Get(o, "cardType")
             /\ w = 2 => /\ DOMAIN v.f \subseteq {"token", "email", "paymentType", "customerId"}
                         /\ Get(v, "token") \in {Get(o, "token"),
                                                 Get(o, "implicitlyVaultedPaymentMethodToken")}
                         /\ Get(v, "email") = Get(o, "payerEmail")
                         /\ Get(v, "paymentType") = Lit("PayPal")
             /\ w = 3 => /\ DOMAIN v.f \subseteq {"token", "username", "paymentType", "customerId"}
                         /\ Get(v, "token") = Get(o, "token")
                         /\ Get(v, "username") = Get(o, "username")
                         /\ Get(v, "paymentType") = Lit("Venmo")
             /\ w = 4 => /\ DOMAIN v.f \subseteq
                              {"token", "maskedNumber", "cardType", "paymentType", "customerId"}
                         /\ Get(v, "token") = Get(o, "token")
                         /\ Get(v, "maskedNumber") = Get(o, "last4")
                         /\ Get(v, "cardType") = Get(o, "cardType")
                         /\ Get(v, "paymentType") = Lit("Google Pay")
             /\ (o = ExampleCreditCard /\ "customer" \notin DOMAIN tx.f)
                  => v = Obj([token |-> Lit("tok_1"), maskedNumber |-> Lit("411111******1111"),
                              cardType |-> Lit("Visa"), customerId |-> Null])

C15_Witness ==
  \E r \in DOMAIN pc :
    /\ server = "generate-report.js"
    /\ Succeeded(r)
    /\ Get(TxOf(r), "creditCard") = ExampleCreditCard
    /\ "customer" \notin DOMAIN TxOf(r).f
    /\ Get(VaultedOf(r), "token") = Lit("tok_1")
    /\ Get(VaultedOf(r), "customerId") = Null

\* C16: a declined outcome (success false, nothing thrown) is answered 400
\* {success: false, error: m}, m being the message of the outcome; never 500.
C16_DeclineIs400WithMessage ==
  \A r \in DOMAIN pc :
    Declined(r)
      => /\ res[r].status = 400
         /\ res[r].body = Obj([success |-> Bool(FALSE),
                               error |-> outcome[r].result.f["message"]])

C16_Witness ==
  \E r \in DOMAIN pc :
    /\ Declined(r)
    /\ Get(outcome[r].result, "message") = Lit("Insufficient Funds")
    /\ res[r].status = 400
    /\ Get(res[r].body, "error") = Lit("Insufficient Funds")

\* C17: when gateway.transaction.sale throws, the answer is 500 with the
\* fixed body {success: false, error: 'Failed to process payment'}: the same
\* for every gateway error, nothing of the error object in it.
C17_ThrowIsOpaque500 ==
  \A r \in DOMAIN pc :
    (pc[r] = "done" /\ outcome[r].kind = "threw")
      => res[r] = [status |-> 500,
                   body |-> Obj([success |-> Bool(FALSE),
                                 error |-> Lit("Failed to process payment")])]

C17_Witness ==
  \E r \in DOMAIN pc :
    /\ pc[r] = "done"
    /\ outcome[r].kind = "threw"
    /\ Get(outcome[r].error, "message") = Lit("ECONNREFUSED 10.0.0.7:443")
    /\ res[r].status = 500

\* C18: GET /client_token answers 200 {clientToken: t}, t being the token the
\* gateway generated, or, when the generation throws, 500 with the fixed body
\* {error: 'Failed to generate client token'}; nothing else.
C18_ClientTokenResponses ==
  \A r \in DOMAIN pc :
    pc[r] = "tokenDone"
      => \/ /\ outcome[r].kind = "returned"
            /\ res[r] = [status |-> 200,
                         body |-> Obj([clientToken |-> outcome[r].result.f["clientToken"]])]
         \/ /\ outcome[r].kind = "threw"
            /\ res[r] = [status |-> 500,
                         body |-> Obj([error |-> Lit("Failed to generate client token")])]

C18_Witness ==
  \E r \in DOMAIN pc, q \in DOMAIN pc :
    /\ pc[r] = "tokenDone" /\ pc[q] = "tokenDone"
    /\ outcome[r].kind = "returned" /\ outcome[q].kind = "threw"
    /\ Get(res[r].body, "clientToken") = Lit("client-token-B")
    /\ res[q].status = 500

\* the transaction data sent for r carries r's own nonce, amount, billing and
\* vault flag
OwnTransactionData(r) ==
  \A td \in CallsOf(r) :
    /\ td.paymentMethodNonce = body[r].paymentMethodNonce
    /\ td.amount = CentsStr(100 * parseFloat(body[r].amount).n)
    /\ IF body[r].billingAddress.t = "obj"
         THEN "billing" \in DOMAIN td /\ td.billing = body[r].billingAddress
         ELSE "billing" \notin DOMAIN td
    /\ StoresInVault(td) <=> (body[r].vaultPaymentMethod = Bool(TRUE))

\* two sale requests with the same body and the same gateway outcome have
\* the same response
SameInputsSameResponse ==
  \A r \in DOMAIN pc, q \in DOMAIN pc :
    (/\ pc[r] = "done" /\ pc[q] = "done"
     /\ body[r] = body[q]
     /\ outcome[r] = outcome[q])
      => res[r] = res[q]

\* C19: concurrent sale requests are independent: under every interleaving
\* the transaction data sent for a request is built from that request's own
\* body, the response depends on the request and its own outcome only, and a
\* step of one request leaves the calls and the response of a finished
\* request alone.
C19_RequestsIndependent ==
  /\ [](SameInputsSameResponse /\ \A r \in DOMAIN pc : OwnTransactionData(r))
  /\ [][\A r \in DOMAIN pc :
          /\ pc[r] = "done" => (res'[r] = res[r] /\ calls'[r] = calls[r] /\ pc'[r] = "done")
          /\ pc[r] = "awaiting" => calls'[r] = calls[r]]_vars

C19_Witness ==
  /\ pc[1] = "awaiting" /\ pc[2] = "awaiting"
  /\ body[1].paymentMethodNonce = Lit("fake-valid-nonce")
  /\ body[2].paymentMethodNonce = Lit("nonce-2")
  /\ body[1].vaultPaymentMethod # body[2].vaultPaymentMethod
  /\ calls[1][1].paymentMethodNonce = Lit("fake-valid-nonce")
  /\ calls[2][1].paymentMethodNonce = Lit("nonce-2")

\* C20: gateway.transaction.sale is invoked at most once for a request:
\* once when both validations pass, never otherwise, and not again after a
\* decline or a thrown gateway error.
C20_SaleAtMostOnce ==
  \A r \in DOMAIN pc :
    /\ Len(calls[r]) <= 1
    /\ pc[r] \in {"awaiting", "done"}
         => (Len(calls[r]) = 1
               <=> ~(NonceMissing(body[r]) \/ AmountInvalid(body[r])))

C20_Witness ==
  \E r \in DOMAIN pc :
    /\ pc[r] = "done"
    /\ outcome[r].kind = "threw"
    /\ Len(calls[r]) = 1
    /\ res[r].status = 500

\* the response to r is the 200 of the success branch
AnsweredSuccess(r) ==
  /\ res[r].status = 200
  /\ Get(res[r].body, "success") = Bool(TRUE)

\* a key that is missing from an object, or an object that is missing
Lacks(o, k) == Get(o, k).t \in {"undefined", "null"}

\* C21: generate-report.js, the normalizer does not raise on missing optional
\* data: a success whose transaction lacks any of the instrument sub-objects,
\* of their fields or the customer is answered 200 success true, never by
\* the 500 of the catch block.
C21_MissingOptionalDataIsNoError ==
  \A r \in DOMAIN pc :
    (server = "generate-report.js" /\ Succeeded(r))
      => (AnsweredSuccess(r) /\ res[r] # FailedResponse /\ res[r].status # 500)

\* a credit card with a token and nothing else, no customer: vaulted, 200
C21_Witness ==
  \E r \in DOMAIN pc :
    /\ server = "generate-report.js" /\ Succeeded(r)
    /\ Get(TxOf(r), "creditCard") = Obj([token |-> Lit("tok_1")])
    /\ Lacks(TxOf(r), "customer") /\ Lacks(TxOf(r), "paypal")
    /\ Lacks(Get(TxOf(r), "creditCard"), "maskedNumber")
    /\ AnsweredSuccess(r)
    /\ Get(VaultedOf(r), "customerId") = Null

\* C22: generate-report.js, a success whose PayPal sub-object carries an
\* implicitly vaulted token but no primary token, the credit card having no
\* token either, yields a PayPal vaultedPaymentMethod with the implicit token.
C22_ImplicitTokenAloneIsVaulted ==
  \A r \in DOMAIN pc :
    (/\ server = "generate-report.js" /\ Succeeded(r)
     /\ Truthy(Get(Get(TxOf(r), "paypal"), "implicitlyVaultedPaymentMethodToken"))
     /\ ~HasToken(Get(TxOf(r), "paypal"))
     /\ ~HasToken(Get(TxOf(r), "creditCard")))
      => (/\ VaultedOf(r).t = "obj"
          /\ Get(VaultedOf(r), "paymentType") = Lit("PayPal")
          /\ Get(VaultedOf(r), "token")
               = Get(Get(TxOf(r), "paypal"), "implicitlyVaultedPaymentMethodToken"))

\* C23: both handlers, a charge that succeeded is never reported as a failure:
\* a result with success true and a transaction is answered 200, success
\* true, with the id of that transaction.
C23_SuccessNeverReportedAsFailure ==
  \A r \in DOMAIN pc :
    Succeeded(r)
      => (/\ AnsweredSuccess(r)
          /\ Get(ResponseTx(r), "id") = Get(TxOf(r), "id")
          /\ Get(ResponseTx(r), "id").t = "str")

\* server.js, a success through PayPal: nothing is vaulted, the answer is 200
C23_Witness ==
  \E r \in DOMAIN pc :
    /\ server = "server.js" /\ Succeeded(r)
    /\ Populated(Get(TxOf(r), "paypal"))
    /\ ~HasToken(Get(TxOf(r), "creditCard"))
    /\ AnsweredSuccess(r)
    /\ Get(ResponseTx(r), "id") = Lit("txn_1")

\* C25: both handlers, the nonce is validated before the amount: a request
\* with a missing nonce and an invalid amount is answered 'Payment method
\* nonce is required', never 'Valid amount is required'.
C25_NonceCheckedBeforeAmount ==
  \A r \in DOMAIN pc :
    (pc[r] = "done" /\ NonceMissing(body[r]) /\ AmountInvalid(body[r]))
      => (/\ res[r] = NonceRequired
          /\ Get(res[r].body, "error") = Lit("Payment method nonce is required")
          /\ Get(res[r].body, "error") # Get(AmountRequired.body, "error")
          /\ calls[r] = <<>>)

\* a request without a nonce whose amount is "-5"
C25_Witness ==
  \E r \in DOMAIN pc :
    /\ pc[r] = "done"
    /\ body[r].paymentMethodNonce = Undef
    /\ body[r].amount = Str(<<"-", "5">>)
    /\ res[r].status = 400
    /\ Get(res[r].body, "error") = Lit("Payment method nonce is required")

\* C24: both handlers, every POST /api/sale gets exactly one response: the
\* gateway call settling, the handler ends having sent one response of status
\* 200, 400 or 500; it never sends a second one and never ends without one.
C24_ExactlyOneResponse ==
  /\ [](\A r \in Reqs :
          /\ sent[r] <= 1
          /\ pc[r] = "awaiting" => sent[r] = 0
          /\ pc[r] = "done" => (sent[r] = 1 /\ res[r].status \in {200, 400, 500}))
  /\ \A r \in Reqs : (pc[r] = "awaiting") ~> (pc[r] = "done" /\ sent[r] = 1)

\* a decline, answered once
C24_Witness ==
  \E r \in Reqs :
    /\ pc[r] = "done" /\ Declined(r)
    /\ sent[r] = 1 /\ res[r].status = 400

\* a run of the submit handler is between setLoading(true) and setLoading(false)
InFlight(s) == submits[s].pc \in {"tokenizing", "fetching"}

\* C26: hosted-fields.js, while a card submission is in flight the submit
\* button stays disabled, whatever validityChange, empty and amount input
\* events arrive, so that no second submission starts before the first ended.
C26_DisabledWhileInFlight ==
  /\ (\E s \in DOMAIN submits : InFlight(s)) => submitButton
  /\ \A s, q \in DOMAIN submits : (InFlight(s) /\ InFlight(q)) => s = q

\* the flag of the body posted for the PayPal order
PostedVaultFlag == fetches[paypalOrder.fetch].body.vaultPaymentMethod

\* C29: hosted-fields.js, for every PayPal payment the vaultPaymentMethod flag
\* processPayment posts equals the checkbox state the approved button's order
\* was created with (requestBillingAgreement or not), whatever checkbox
\* changes and re-initializations happen in between.
C29_PostedFlagMatchesOrder ==
  paypalOrder.stage = "posted"
    => PostedVaultFlag = Bool(paypalOrder.requestBillingAgreement)

\* C27: hosted-fields.js with the server of generate-report.js, whenever the
\* server answers a payment with success true, processPayment and the submit
\* handler show a success result, whatever vaultedPaymentMethod the response
\* carries; the charge is never displayed as 'Payment processing failed'.
C27_SuccessIsShownAsSuccess ==
  [][\A r \in Reqs :
       (/\ r \in DOMAIN fetches
        /\ fetches[r].pending /\ ~fetches'[r].pending
        /\ pc[r] = "done"
        /\ Get(res[r].body, "success") = Bool(TRUE))
         => (resultDiv'.className = "result success" /\ resultDiv' # ProcessingFailed)]_vars

\* every initializeVenmo call of the toggle has run to its end without error
VenmoSettled ==
  /\ venmoInits # <<>>
  /\ \A c \in DOMAIN venmoInits : venmoInits[c].pc = "done"

\* C28: hosted-fields.js, after any sequence of toggle changes, overlapping
\* initializeVenmo calls included, once all calls have settled the live
\* venmoInstance was created with the mode the toggle shows and every other
\* instance created has been torn down.
C28_LiveInstanceMatchesToggle ==
  VenmoSettled
    => (/\ venmoInstance # 0
        /\ venmoCreated[venmoInstance].mode = venmoToggle
        /\ ~venmoCreated[venmoInstance].torn
        /\ \A i \in DOMAIN venmoCreated : i # venmoInstance => venmoCreated[i].torn)

KnownOptions == {Lit("--days"), Lit("--format"), Lit("--output"), Lit("--help"), Lit("-h")}

ValueOptions == {Lit("--days"), Lit("--format"), Lit("--output")}

\* the run is over or has reached the search
ReportStarted == reportPc # "start"

\* the run ended with exit code 1, no search issued, no file written
ExitedEarly == reportPc = "exited" /\ exitCode = 1 /\ searches = 0 /\ files = <<>>

\* some word of the command line is an option the tool does not know
HasUnknownOption == \E i \in DOMAIN argv : argv[i] = Lit("--bogus")

\* some --format is followed by a value other than csv, json, table
HasOtherFormat ==
  \E i \in DOMAIN argv :
    argv[i] = Lit("--format") /\ i + 1 \in DOMAIN argv /\ argv[i + 1] \notin ValidFormats

\* with no option the run uses days = 1 and format = csv
DefaultsWithoutOptions ==
  (ReportStarted /\ argv = <<>>)
    => (options.days = Num(Fin(FALSE, 1, 0)) /\ options.format = Lit("csv"))

\* C30 as stated: an unknown option or a --format value other than csv, json,
\* table, anywhere on the command line, ends the run with exit code 1 before
\* any search and any file; with no option days = 1 and format = csv.
C30_AnyBadWordExits ==
  /\ (ReportStarted /\ (HasUnknownOption \/ HasOtherFormat)) => ExitedEarly
  /\ DefaultsWithoutOptions

\* the positions parseArgs reads as options: the first word, and the word
\* after an option and its value
RECURSIVE OptionPositions(_, _)
OptionPositions(args, i) ==
  IF i > Len(args) THEN {}
  ELSE {i} \cup OptionPositions(args, IF args[i] \in ValueOptions THEN i + 2 ELSE i + 1)

\* the format in force: the value of the last --format read as an option,
\* csv standing in for a missing or empty value, csv without --format
FormatInForce ==
  LET at == {i \in OptionPositions(argv, 1) : argv[i] = Lit("--format")}
  IN  IF at = {} THEN Lit("csv")
      ELSE LET last == CHOOSE i \in at : \A j \in at : j <= i
           IN  IF last + 1 \in DOMAIN argv /\ argv[last + 1] # Str(<<>>)
                 THEN argv[last + 1] ELSE Lit("csv")

\* C30, amended: a word read in option position that is not a known option,
\* or a format in force other than csv, json, table, ends the run with exit
\* code 1 before any search and any file; the word after --days, --format or
\* --output is that option's value whatever it is; with no option days = 1
\* and format = csv.
C30_BadOptionOrFormatInForceExits ==
  /\ (ReportStarted
        /\ (\/ \E i \in OptionPositions(argv, 1) : argv[i] \notin KnownOptions
            \/ FormatInForce \notin ValidFormats))
       => ExitedEarly
  /\ DefaultsWithoutOptions

\* --format xml: exit code 1, no search, no file
C30_Witness ==
  /\ argv = <<Lit("--format"), Lit("xml")>>
  /\ ExitedEarly

====
